---- MODULE Spec2Model ----
(***************************************************************************)
(* Exposure state machine of the ZWO ASI camera wrapper                    *)
(* (src/src/asihandle.rs, AsiHandle).                                      *)
(*                                                                         *)
(* The handle's capture state is the shared flag `capturing`               *)
(* (Arc<AtomicBool>), the shared `start` instant (Arc<RwLock<Option>>),    *)
(* and the imager-owned `last_exposure` (RefCell<Option>).  Every handler  *)
(* is a sequence of steps, one per access to shared state or per native    *)
(* call, so that the interleavings with a second handle that shares the    *)
(* flag are the ones the code allows.  The native SDK is an input: every   *)
(* native call draws its return code, and every status query its status,   *)
(* from the sets below.                                                    *)
(*                                                                         *)
(* The control surface of the handle (ROI, gain cache, property catalog,    *)
(* teardown) and the capture flag of CameraUnitASI                         *)
(* (src/src/asicamera_2.rs) are modelled by handlers that run in one step: *)
(* they are called by the thread that owns the handle, or under a mutex.   *)
(*                                                                         *)
(* Option<T> is a sequence of length 0 (None) or 1 (Some(x)).              *)
(* Instants and timestamps are the ordinal of the start_exposure call      *)
(* that took them (`epoch`), which orders them and tells a stale one from  *)
(* the current one.                                                        *)
(***************************************************************************)
EXTENDS Integers, Sequences, FiniteSets, TLC

VARIABLES
    capturing,      \* AsiHandle.capturing: Arc<AtomicBool>
    start,          \* AsiHandle.start: Arc<RwLock<Option<Instant>>>
    startReaders,   \* threads holding a read guard of `start`
    last_exposure,  \* AsiHandle.last_exposure: RefCell<Option<LastExposureInfo>>
    shutter_open,   \* AsiHandle.shutter_open: Option<Arc<AtomicBool>>
    pc,             \* per thread: position inside the handler it runs
    loc,            \* per thread: the handler's local variables
    res,            \* per thread: what its last completed call returned
    calls,          \* per thread: native calls issued by its current/last call
    epoch,          \* number of start_exposure calls that passed the flag check
    capEpoch,       \* epoch of the call that last stored capturing = true
    active,         \* history: an exposure was started and is not yet resolved
    info,           \* AsiHandle.info: the flags of ASI_CAMERA_INFO that are read
    caps,           \* AsiHandle.caps: the control catalog built by get_caps
    roi,            \* AsiHandle.roi: RefCell<AsiRoi>, the cached ROI
    devRoi,         \* the ROI the device holds (start position, ROI format)
    gain,           \* AsiHandle.gain: RefCell<Option<i64>>, the gain cache
    devGain,        \* the gain the device holds
    ctl,            \* the last control operation: its request and its outcome
    split,          \* the result of get_split_ctrl, None before it ran
    cuCapturing,    \* CameraUnitASI.capturing: Arc<Mutex<bool>>
    cuRes,          \* what the last CameraUnitASI / CameraInfoASI call returned
    exposure,       \* AsiHandle.exposure: AtomicU64, the cached exposure time
    drv,            \* what the last driver-level call returned
    opened,         \* the camera ids the SDK holds open for the driver
    cuRoi,          \* CameraUnitASI.roi: the ROI the unit believes is set
    cuDevRoi,       \* the ROI format and start position of the unit's device
    cuStatus,       \* the exposure status of the unit's device
    testPc,         \* tests::test_write_image: the position of the test
    devFlip,        \* the ASI_FLIP status the device holds
    held,           \* the cells of the handle an unfinished operation holds
    cuGeom          \* CameraUnitASI.roi: its position, size and binning

captureVars == <<capturing, start, startReaders, last_exposure, shutter_open,
                 pc, loc, res, calls, epoch, capEpoch, active>>

roiVars == <<roi, devRoi>>

gainVars == <<gain, devGain>>

unitVars == <<cuCapturing, cuRes>>

driverVars == <<exposure, drv, opened>>

unitRoiVars == <<cuRoi, cuDevRoi, cuGeom>>

testVars == <<cuStatus, testPc>>

extVars == <<exposure, drv, opened, cuRoi, cuDevRoi, cuGeom, cuStatus, testPc,
             devFlip, held>>

vars == <<capturing, start, startReaders, last_exposure, shutter_open,
          pc, loc, res, calls, epoch, capEpoch, active,
          info, caps, roi, devRoi, gain, devGain, ctl, split,
          cuCapturing, cuRes,
          exposure, drv, opened, cuRoi, cuDevRoi, cuGeom, cuStatus, testPc,
          devFlip, held>>

\* Bound on the number of exposures started in one behaviour.
MaxEpoch == 2

None == <<>>
Some(x) == <<x>>

Threads == {"imager", "info", "caller2"}

\* Return codes of the native SDK that the wrapper tells apart, and one
\* (GENERAL_ERROR) standing for every other failure.
RetCodes == {"ASI_SUCCESS", "ASI_ERROR_INVALID_ID", "ASI_ERROR_CAMERA_CLOSED",
             "ASI_ERROR_TIMEOUT", "ASI_ERROR_GENERAL_ERROR"}

\* Raw values ASIGetExpStatus can store; ASI_EXP_OTHER is any unknown value.
RawStatuses == {"ASI_EXP_IDLE", "ASI_EXP_WORKING", "ASI_EXP_SUCCESS",
                "ASI_EXP_FAILED", "ASI_EXP_OTHER"}

\* impl From<(u32, ..)> for AsiError: the variant a return code maps to.
AsiErrorFrom(code) ==
    CASE code = "ASI_ERROR_INVALID_ID"    -> "InvalidId"
      [] code = "ASI_ERROR_CAMERA_CLOSED" -> "CameraClosed"
      [] code = "ASI_ERROR_TIMEOUT"       -> "Timeout"
      [] OTHER                            -> "GeneralError"

\* The map_err closure used after ASIGetExpStatus, ASIStartExposure and
\* ASIStopExposure: CameraClosed and InvalidId are kept, the rest is
\* GeneralError.
GenCamErrorOf(code) ==
    CASE AsiErrorFrom(code) = "CameraClosed" -> "CameraClosed"
      [] AsiErrorFrom(code) = "InvalidId"    -> "InvalidId"
      [] OTHER                               -> "GeneralError"

\* The map_err closure used after ASIGetDataAfterExp: Timeout is TimedOut.
PullErrorOf(code) ==
    CASE AsiErrorFrom(code) = "CameraClosed" -> "CameraClosed"
      [] AsiErrorFrom(code) = "InvalidId"    -> "InvalidId"
      [] AsiErrorFrom(code) = "Timeout"      -> "TimedOut"
      [] OTHER                               -> "GeneralError"

\* impl From<ASI_EXPOSURE_STATUS> for AsiExposureStatus.
ExposureStatusFrom(raw) ==
    CASE raw = "ASI_EXP_IDLE"    -> "Idle"
      [] raw = "ASI_EXP_WORKING" -> "Working"
      [] raw = "ASI_EXP_SUCCESS" -> "Success"
      [] raw = "ASI_EXP_FAILED"  -> "Failed"
      [] OTHER                   -> "Idle"

InitLoc == [op |-> "none", pre |-> FALSE, epoch |-> 0, lexp |-> None,
            lexp0 |-> None, stat |-> "None", rc |-> "None", seen |-> None,
            dark |-> FALSE, afterStop |-> FALSE]

InitRes == [op |-> "none", kind |-> "none", pre |-> FALSE, stat |-> "None",
            rc |-> "None", arg |-> None, lexp0 |-> None]

----------------------------------------------------------------------------
\* The camera and its control catalog.

\* The range every numeric control of the device declares
\* (ASI_CONTROL_CAPS.MinValue and MaxValue).
CtrlMin == 0

CtrlMax == 2

\* ASI_CAMERA_INFO: the flags the wrapper reads.
Infos == [MechanicalShutter : BOOLEAN, IsCoolerCam : BOOLEAN,
          IsUSB3Camera : BOOLEAN]

\* The native control types a device can report; "Other" is any type that
\* map_control_cap does not recognise.
NativeTypes == {"Gain", "Gamma", "Exposure", "AutoExpMaxGain",
                "HighSpeedMode", "Temperature", "TargetTemp", "CoolerOn",
                "Other"}

\* A generic control id: the facet of GenCamCtrl and the control's name.
Key(facet, name) == [facet |-> facet, name |-> name]

\* map_control_cap: the generic control id a native control type is filed
\* under.  Gain and AutoExpMaxGain are both filed under AnalogCtrl::Gain.
KeyOf(type) ==
    CASE type = "Gain"           -> Key("Analog", "Gain")
      [] type = "Gamma"          -> Key("Analog", "Gamma")
      [] type = "Exposure"       -> Key("Exposure", "ExposureTime")
      [] type = "AutoExpMaxGain" -> Key("Analog", "Gain")
      [] type = "HighSpeedMode"  -> Key("Device", "HighSpeedMode")
      [] type = "Temperature"    -> Key("Device", "Temperature")
      [] type = "TargetTemp"     -> Key("Device", "CoolerTemp")
      [] type = "CoolerOn"       -> Key("Device", "CoolerEnable")

\* A Duration is its number of nanoseconds.  Duration::as_micros drops what
\* is below a microsecond; Duration::from_micros is exact.
AsMicros(d) == d \div 1000
FromMicros(us) == us * 1000

\* map_control_cap: the descriptor built from a capability record.  Float
\* limits are in hundredths of a degree: MinValue / 10 degrees; the limits
\* of the exposure time are Duration::from_micros of the record's.
LimsOf(type) ==
    CASE type = "Exposure"    -> [kind |-> "Duration",
                                  min |-> FromMicros(CtrlMin),
                                  max |-> FromMicros(CtrlMax)]
      [] type = "Temperature" -> [kind |-> "Float", min |-> CtrlMin * 10,
                                  max |-> CtrlMax * 10]
      [] type = "CoolerOn"    -> [kind |-> "Bool", min |-> 0, max |-> 1]
      [] OTHER                -> [kind |-> "Int", min |-> CtrlMin,
                                  max |-> CtrlMax]

\* The pixel formats the camera supports (get_pixfmt of SupportedVideoFormat).
PixelFmtVariants == {8, 16}

\* The entries AsiHandle::new and get_caps add by hand.
ExtraCaps(inf) ==
    {<<Key("Sensor", "PixelFormat"),
       [tag |-> "Invalid", lims |-> [kind |-> "PixelFmt", min |-> 8,
                                     max |-> 16]]>>,
     <<Key("Sensor", "ReverseX"),
       [tag |-> "Flip", lims |-> [kind |-> "Bool", min |-> 0, max |-> 1]]>>,
     <<Key("Sensor", "ReverseY"),
       [tag |-> "Flip", lims |-> [kind |-> "Bool", min |-> 0, max |-> 1]]>>}
    \cup (IF inf.IsUSB3Camera
          THEN {<<Key("Device", "UUID"),
                  [tag |-> "Invalid",
                   lims |-> [kind |-> "EnumStr", min |-> 0, max |-> 0]]>>}
          ELSE {})
    \cup (IF inf.MechanicalShutter
          THEN {<<Key("Sensor", "ShutterMode"),
                  [tag |-> "Invalid",
                   lims |-> [kind |-> "Bool", min |-> 0, max |-> 1]]>>}
          ELSE {})

\* A capability list as the device reports it: the set of control types
\* present, and whether Gain is reported after AutoExpMaxGain (the only order
\* that matters, because the two share a key).
CapLists == [present : SUBSET NativeTypes, gainLast : BOOLEAN]

\* The native type whose record ends up under key k when the records are
\* collected into the map: the last one reported for that key.
WinnerOf(k, list) ==
    LET ts == {ty \in list.present \ {"Other"} : KeyOf(ty) = k} IN
    IF ts = {"Gain", "AutoExpMaxGain"}
    THEN (IF list.gainLast THEN "Gain" ELSE "AutoExpMaxGain")
    ELSE CHOOSE ty \in ts : TRUE

\* get_caps (and the same lines of AsiHandle::new): the full catalog, a map
\* from generic control id to (native tag, descriptor).
GetCaps(inf, list) ==
    LET mapped == {KeyOf(ty) : ty \in list.present \ {"Other"}}
        extra  == ExtraCaps(inf)
        extraKeys == {e[1] : e \in extra}
    IN  [k \in mapped \cup extraKeys |->
            IF k \in extraKeys
            THEN (CHOOSE e \in extra : e[1] = k)[2]
            ELSE [tag |-> WinnerOf(k, list), lims |-> LimsOf(WinnerOf(k, list))]]

\* The ROI values the model tells apart: a start position and a ROI format
\* (width, height, binning and image type taken together).
Positions == {"p0", "p1"}

Formats == {"RAW8", "RAW16"}

AsiRois == [pos : Positions, fmt : Formats]

\* A value handed to or returned by a property call: its variant and its
\* payload.  A Float carries hundredths of a degree.
PValue(type, v) == [type |-> type, v |-> v]

\* The ROI recorded by a control operation that is not about a ROI.
NoRoi == [pos |-> "p0", fmt |-> "RAW8"]

InitCtl == [op |-> "none", prop |-> Key("none", "none"),
            value |-> PValue("none", 0), req |-> NoRoi, pre |-> FALSE,
            kind |-> "none", out |-> None, natives |-> <<>>]

InitCuRes == [op |-> "none", who |-> "none", kind |-> "none", pre |-> FALSE,
              stat |-> "None", natives |-> <<>>]

\* No driver-level call has returned yet.
InitDrv == [op |-> "none", kind |-> "none", out |-> <<>>, natives |-> <<>>]

\* The exposure time the device reports when the handle is opened, in
\* microseconds: AsiHandle::new ends with get_exposure, which caches it.
OpenExposure == 10000

\* The ROI of a freshly opened CameraUnitASI: the full sensor at the origin.
UnitSizes == {"full", "half"}
InitUnitRoi == [pos |-> "p0", size |-> "full"]

\* The sensor of the unit: CameraUnitASI.props.max_width, max_height and
\* supported_bins.
MaxWidth == 32
MaxHeight == 4
SupportedBins == {1, 2}

\* struct ROI.
UnitRoi(x, y, w, h, bx, by) ==
    [x_min |-> x, y_min |-> y, width |-> w, height |-> h,
     bin_x |-> bx, bin_y |-> by]

\* open_camera: the unit starts with the whole sensor, unbinned.
InitGeom == UnitRoi(0, 0, MaxWidth, MaxHeight, 1, 1)

\* ASI_FLIP_STATUS: NONE, HORIZ, VERT and BOTH.
FlipNone == 0
FlipHoriz == 1
FlipVert == 2
FlipBoth == 3

\* AsiHandle::new for a camera with the flags `inf` and the capability list
\* `list`: the state of a freshly opened handle.  shutter_open is Some(false)
\* for a camera with a mechanical shutter and None otherwise; the ROI cache
\* holds what the device reported; the gain cache is empty.
InitCells(infos, lists) ==
    /\ capturing = FALSE
    /\ start = None
    /\ startReaders = {}
    /\ last_exposure = None
    /\ info \in infos
    /\ shutter_open = IF info.MechanicalShutter THEN Some(FALSE) ELSE None
    /\ \E list \in lists : caps = GetCaps(info, list)
    /\ devRoi = [pos |-> "p0", fmt |-> "RAW8"]
    /\ roi = devRoi
    /\ gain = None
    /\ devGain = CtrlMin
    /\ ctl = InitCtl
    /\ split = None
    /\ cuCapturing = FALSE
    /\ cuRes = InitCuRes
    /\ exposure = OpenExposure
    /\ drv = InitDrv
    /\ opened = {}
    /\ cuRoi = InitUnitRoi
    /\ cuDevRoi = InitUnitRoi
    /\ cuGeom = InitGeom
    /\ cuStatus = "ASI_EXP_IDLE"
    /\ testPc = "start"
    /\ devFlip = FlipNone
    /\ pc = [t \in Threads |-> "ready"]
    /\ loc = [t \in Threads |-> InitLoc]
    /\ res = [t \in Threads |-> InitRes]
    /\ calls = [t \in Threads |-> <<>>]
    /\ epoch = 0
    /\ capEpoch = 0
    /\ active = FALSE

\* The cells of AsiHandle that an operation can find held: the RefCells roi
\* and last_exposure when they are borrowed, the lock of start when it is
\* poisoned.
Cells == {"roi", "start", "last_exposure"}

\* A handle none of whose cells is held, as AsiHandle::new returns it.
InitWith(infos, lists) == InitCells(infos, lists) /\ held = {}

\* A device that reports every recognised control, Gain before
\* AutoExpMaxGain.
FullList == [present |-> NativeTypes, gainLast |-> FALSE]

\* The cameras of the capture specifications: with and without a mechanical
\* shutter.
CaptureInfos == {inf \in Infos : ~inf.IsCoolerCam /\ inf.IsUSB3Camera}

Init == InitWith(CaptureInfos, {FullList})

----------------------------------------------------------------------------
\* Bookkeeping shared by all handlers.

\* Whether a returned result resolves the running exposure (TRUE/FALSE), or
\* starts one; "same" leaves the history as it is.
Resolution(r) ==
    CASE r.op = "start_exposure" /\ r.kind = "Ok" -> "started"
      [] r.op = "download_image" /\ r.pre
            /\ r.stat \in {"Success", "Failed", "Idle"} -> "resolved"
      [] r.op = "stop_exposure" /\ r.pre -> "resolved"
      [] r.op = "get_state"
            /\ r.kind \in {"ExposureFailed", "Errored(ExposureNotStarted)"}
            -> "resolved"
      [] OTHER -> "same"

\* last_exposure as the caller can see it: it is owned by the imager, and a
\* handle that shares only the flag and the instant has no access to it.
Seen(t) == IF t = "info" THEN None ELSE last_exposure

\* A handler of thread t begins: its locals are reset, the value of the
\* capturing flag it loaded is kept in `pre`.
Enter(t, op, to) ==
    /\ pc[t] = "ready"
    /\ pc' = [pc EXCEPT ![t] = to]
    /\ loc' = [loc EXCEPT ![t] = [InitLoc EXCEPT !.op = op, !.pre = capturing,
                                                !.lexp0 = Seen(t)]]
    /\ calls' = [calls EXCEPT ![t] = <<>>]

\* The result record of the handler thread t runs, with the locals l.
Result(l, kind, arg) ==
    [op |-> l.op, kind |-> kind, pre |-> l.pre, stat |-> l.stat,
     rc |-> l.rc, arg |-> arg, lexp0 |-> l.lexp0]

\* The handler of thread t returns `kind`.
Return(t, l, kind, arg) ==
    /\ pc' = [pc EXCEPT ![t] = "ready"]
    /\ res' = [res EXCEPT ![t] = Result(l, kind, arg)]
    /\ active' = CASE Resolution(Result(l, kind, arg)) = "started"  -> TRUE
                   [] Resolution(Result(l, kind, arg)) = "resolved" -> FALSE
                   [] OTHER -> active

\* A handler that returns in the step that enters it.
EnterReturn(t, op, kind) ==
    /\ pc[t] = "ready"
    /\ loc' = [loc EXCEPT ![t] = [InitLoc EXCEPT !.op = op, !.pre = capturing,
                                                !.lexp0 = Seen(t)]]
    /\ calls' = [calls EXCEPT ![t] = <<>>]
    /\ Return(t, loc'[t], kind, None)

Goto(t, to) == pc' = [pc EXCEPT ![t] = to]

NativeCall(t, name) == calls' = [calls EXCEPT ![t] = Append(@, name)]

----------------------------------------------------------------------------
\* AsiHandle::start_exposure

\* A start_exposure that does not look at the flag.
StartRefused_Never(flag) == FALSE

\* line 444: the call is refused when the flag it loaded is set.
StartRefused(flag) == flag

\* lines 444-447: load the flag; return ExposureInProgress when it is set.
SeCall(t) ==
    \/ /\ StartRefused(capturing)
       /\ EnterReturn(t, "start_exposure", "ExposureInProgress")
       /\ UNCHANGED <<capturing, start, startReaders, last_exposure,
                      shutter_open, epoch, capEpoch>>
    \/ /\ ~StartRefused(capturing)
       /\ epoch < MaxEpoch
       /\ pc[t] = "ready"
       /\ Goto(t, "se_store")
       /\ loc' = [loc EXCEPT ![t] = [InitLoc EXCEPT
                     !.op = "start_exposure", !.pre = capturing,
                     !.lexp0 = last_exposure, !.epoch = epoch + 1]]
       /\ calls' = [calls EXCEPT ![t] = <<>>]
       /\ epoch' = epoch + 1
       /\ UNCHANGED <<capturing, start, startReaders, last_exposure,
                      shutter_open, res, capEpoch, active>>

\* line 448: capturing.store(true).
SeStore(t) ==
    /\ pc[t] = "se_store"
    /\ capturing' = TRUE
    /\ capEpoch' = loc[t].epoch
    /\ Goto(t, "se_snapshot")
    /\ UNCHANGED <<start, startReaders, last_exposure, shutter_open, loc,
                   res, calls, epoch, active>>

\* A dark-frame flag that follows the shutter instead of its closure.
DarkFrame_Inverted(shutter) == IF shutter = None THEN FALSE ELSE shutter[1]

\* lines 450-454: the dark-frame flag is the negation of the tracked shutter
\* state, and false for a camera without a mechanical shutter.
DarkFrame(shutter) == IF shutter = None THEN FALSE ELSE ~shutter[1]

\* AsiHandle::get_gain (lines 369-381): the cached gain when there is one
\* (no native call); else the device is asked, and the answer cached when
\* the call succeeds.  The result is <<gain cache after, Option of the gain
\* returned>>.
GetGain(cache, dev, rc) ==
    IF cache # None THEN <<cache, cache>>
    ELSE IF rc = "ASI_SUCCESS" THEN <<Some(dev), Some(dev)>>
    ELSE <<None, None>>

\* lines 450-465: the local LastExposureInfo snapshot; its gain is
\* get_gain().ok().
SeSnapshot(t) ==
    /\ pc[t] = "se_snapshot"
    /\ "roi" \notin held
    /\ \E rc \in (IF gain # None THEN {"ASI_SUCCESS"} ELSE RetCodes) :
         /\ gain' = GetGain(gain, devGain, rc)[1]
         /\ loc' = [loc EXCEPT ![t].lexp =
                      Some([tstamp |-> loc[t].epoch,
                            exposure |-> FromMicros(exposure),
                            darkframe |-> DarkFrame(shutter_open),
                            gain |-> GetGain(gain, devGain, rc)[2]])]
    /\ calls' = [calls EXCEPT ![t] =
                   IF gain # None THEN @
                   ELSE Append(@, "ASIGetControlValue")]
    /\ Goto(t, "se_instant")
    /\ UNCHANGED <<capturing, start, startReaders, last_exposure,
                   shutter_open, res, epoch, capEpoch, active, devGain>>

\* lines 466-470: start.write() waits for the readers, then stores the
\* instant.
SeInstant(t) ==
    /\ pc[t] = "se_instant"
    /\ startReaders = {}
    /\ "start" \notin held
    /\ start' = Some(loc[t].epoch)
    /\ Goto(t, "se_native")
    /\ UNCHANGED <<capturing, startReaders, last_exposure, shutter_open, loc,
                   res, calls, epoch, capEpoch, active>>

\* History: another handle's stop_exposure has issued ASIStopExposure and
\* its store of false comes, or came, after the store of true of the
\* start_exposure that thread t is running.
StopCutIn(t) ==
    \E u \in Threads \ {t} :
        \/ pc[u] = "st_clear"
        \/ /\ ~capturing
           /\ pc[u] = "ready"
           /\ res[u].op = "stop_exposure" /\ res[u].pre

\* line 471: ASIStartExposure(handle, darkframe), with the dark-frame flag
\* that also went into the snapshot; loc.dark is the flag the SDK received.
SeNative(t) ==
    /\ pc[t] = "se_native"
    /\ \E rc \in RetCodes :
         /\ loc' = [loc EXCEPT ![t].rc = rc,
                               ![t].dark = loc[t].lexp[1].darkframe,
                               ![t].afterStop = StopCutIn(t)]
         /\ Goto(t, IF rc = "ASI_SUCCESS" THEN "se_commit" ELSE "se_rollback")
    /\ NativeCall(t, "ASIStartExposure")
    /\ UNCHANGED <<capturing, start, startReaders, last_exposure,
                   shutter_open, res, epoch, capEpoch, active>>

\* A start_exposure without the rollback of the flag.
FlagAfterStartFailure_Kept == TRUE

\* lines 471-478: the flag after the native start call failed.
FlagAfterStartFailure == FALSE

\* lines 471-478: the native call failed; the flag is rolled back and the
\* mapped error returned.
SeRollback(t) ==
    /\ pc[t] = "se_rollback"
    /\ capturing' = FlagAfterStartFailure
    /\ Return(t, loc[t], GenCamErrorOf(loc[t].rc), None)
    /\ UNCHANGED <<start, startReaders, last_exposure, shutter_open, loc,
                   calls, epoch, capEpoch>>

\* A start_exposure that drops the snapshot instead of storing it.
SnapshotStored_Dropped(lexp) == None

\* line 482: *lexp = Some(last_exposure).
SnapshotStored(lexp) == lexp

\* lines 479-483: the snapshot is stored and Ok returned.
SeCommit(t) ==
    /\ pc[t] = "se_commit"
    /\ "last_exposure" \notin held
    /\ last_exposure' = SnapshotStored(loc[t].lexp)
    /\ Return(t, loc[t], "Ok", None)
    /\ UNCHANGED <<capturing, start, startReaders, shutter_open, loc, calls,
                   epoch, capEpoch>>

\* lines 456-458, 466-470 and 479-481: a cell the call needs is held; it
\* returns AccessViolation from where it stands, and stores nothing.
SeDenied(t) ==
    /\ \/ pc[t] = "se_snapshot" /\ "roi" \in held
       \/ pc[t] = "se_instant" /\ "start" \in held
       \/ pc[t] = "se_commit" /\ "last_exposure" \in held
    /\ Return(t, loc[t], "AccessViolation", None)
    /\ UNCHANGED <<capturing, start, startReaders, last_exposure,
                   shutter_open, loc, calls, epoch, capEpoch>>

\* What the capture handlers leave alone, the gain cache apart.
ctlVars == <<info, caps, roi, devRoi, ctl, split, cuCapturing, cuRes,
            exposure, drv, opened, cuRoi, cuDevRoi, cuGeom, cuStatus, testPc,
            devFlip, held>>

StartExposure(t) ==
    \/ SeCall(t) /\ UNCHANGED gainVars /\ UNCHANGED ctlVars
    \/ SeStore(t) /\ UNCHANGED gainVars /\ UNCHANGED ctlVars
    \/ SeSnapshot(t) /\ UNCHANGED ctlVars
    \/ SeInstant(t) /\ UNCHANGED gainVars /\ UNCHANGED ctlVars
    \/ SeNative(t) /\ UNCHANGED gainVars /\ UNCHANGED ctlVars
    \/ SeRollback(t) /\ UNCHANGED gainVars /\ UNCHANGED ctlVars
    \/ SeCommit(t) /\ UNCHANGED gainVars /\ UNCHANGED ctlVars

----------------------------------------------------------------------------
\* AsiHandle::get_state_raw, as used by the handlers: the native status
\* query either fails with a mapped error or yields a status.

\* One draw of the native status query: <<return code, status>>.  A failed
\* query leaves the status at its default, which is not read.
StatusQueries ==
    ({"ASI_SUCCESS"} \X RawStatuses)
        \cup ((RetCodes \ {"ASI_SUCCESS"}) \X {"ASI_EXP_IDLE"})

----------------------------------------------------------------------------
\* AsiHandle::stop_exposure

\* lines 487-489: ExposureNotStarted when the flag is clear.
StCall(t) ==
    \/ /\ ~capturing
       /\ EnterReturn(t, "stop_exposure", "ExposureNotStarted")
       /\ UNCHANGED <<capturing, start, startReaders, last_exposure,
                      shutter_open, epoch, capEpoch>>
    \/ /\ capturing
       /\ Enter(t, "stop_exposure", "st_native")
       /\ UNCHANGED <<capturing, start, startReaders, last_exposure,
                      shutter_open, res, epoch, capEpoch, active>>

\* lines 491-495: ASIStopExposure(handle).
StNative(t) ==
    /\ pc[t] = "st_native"
    /\ \E rc \in RetCodes : loc' = [loc EXCEPT ![t].rc = rc]
    /\ NativeCall(t, "ASIStopExposure")
    /\ Goto(t, "st_clear")
    /\ UNCHANGED <<capturing, start, startReaders, last_exposure,
                   shutter_open, res, epoch, capEpoch, active>>

\* A stop_exposure that leaves the flag set.
FlagAfterStop_Kept == TRUE

\* line 496: the flag after the native stop call, whatever it returned.
FlagAfterStop == FALSE

\* lines 496-497: capturing.store(false), then the result of the native call.
StClear(t) ==
    /\ pc[t] = "st_clear"
    /\ capturing' = FlagAfterStop
    /\ Return(t, loc[t], IF loc[t].rc = "ASI_SUCCESS" THEN "Ok"
                         ELSE GenCamErrorOf(loc[t].rc), None)
    /\ UNCHANGED <<start, startReaders, last_exposure, shutter_open, loc,
                   calls, epoch, capEpoch>>

StopExposure(t) ==
    \/ StCall(t) /\ UNCHANGED gainVars /\ UNCHANGED ctlVars
    \/ StNative(t) /\ UNCHANGED gainVars /\ UNCHANGED ctlVars
    \/ StClear(t) /\ UNCHANGED gainVars /\ UNCHANGED ctlVars

----------------------------------------------------------------------------
\* AsiHandle::get_state

\* lines 408-412: Idle when the flag is clear.
GsCall(t) ==
    \/ /\ ~capturing
       /\ EnterReturn(t, "get_state", "Idle")
       /\ UNCHANGED <<capturing, start, startReaders, last_exposure,
                      shutter_open, epoch, capEpoch>>
    \/ /\ capturing
       /\ Enter(t, "get_state", "gs_status")
       /\ UNCHANGED <<capturing, start, startReaders, last_exposure,
                      shutter_open, res, epoch, capEpoch, active>>

\* A get_state that treats a failed exposure as a finished one.
GsBranch_FailedAsFinished(stat) ==
    CASE stat = "Idle"    -> "gs_idle"
      [] stat = "Working" -> "gs_read"
      [] stat = "Success" -> "gs_finished"
      [] stat = "Failed"  -> "gs_finished"

\* lines 413-440: where get_state goes for each native status.
GsBranch(stat) ==
    CASE stat = "Idle"    -> "gs_idle"
      [] stat = "Working" -> "gs_read"
      [] stat = "Success" -> "gs_finished"
      [] stat = "Failed"  -> "gs_failed"

\* line 413: get_state_raw()?.
GsStatus(t) ==
    /\ pc[t] = "gs_status"
    /\ NativeCall(t, "ASIGetExpStatus")
    /\ \E q \in StatusQueries :
         IF q[1] # "ASI_SUCCESS"
         THEN /\ loc' = [loc EXCEPT ![t].rc = q[1]]
              /\ Return(t, loc'[t], GenCamErrorOf(q[1]), None)
         ELSE /\ loc' = [loc EXCEPT ![t].rc = q[1],
                                    ![t].stat = ExposureStatusFrom(q[2])]
              /\ Goto(t, GsBranch(ExposureStatusFrom(q[2])))
              /\ UNCHANGED <<res, active>>
    /\ UNCHANGED <<capturing, start, startReaders, last_exposure,
                   shutter_open, epoch, capEpoch>>

\* lines 416-419: Idle while the flag is set clears the flag.
GsIdle(t) ==
    /\ pc[t] = "gs_idle"
    /\ capturing' = FALSE
    /\ Return(t, loc[t], "Errored(ExposureNotStarted)", None)
    /\ UNCHANGED <<start, startReaders, last_exposure, shutter_open, loc,
                   calls, epoch, capEpoch>>

\* lines 436-439: Failed clears the flag.
GsFailed(t) ==
    /\ pc[t] = "gs_failed"
    /\ capturing' = FALSE
    /\ Return(t, loc[t], "ExposureFailed", None)
    /\ UNCHANGED <<start, startReaders, last_exposure, shutter_open, loc,
                   calls, epoch, capEpoch>>

\* line 434: Success leaves the flag alone.
GsFinished(t) ==
    /\ pc[t] = "gs_finished"
    /\ Return(t, loc[t], "ExposureFinished", None)
    /\ UNCHANGED <<capturing, start, startReaders, last_exposure,
                   shutter_open, loc, calls, epoch, capEpoch>>

\* A get_state that finds no start instant whatever the lock holds.
InstantSeen_Absent(s) == None

\* line 422: what `*start.read()` yields: the Option the lock holds.
InstantSeen(s) == s

\* line 422: start.read() takes a read guard and copies the instant.
GsRead(t) ==
    /\ pc[t] = "gs_read"
    /\ startReaders' = startReaders \cup {t}
    /\ loc' = [loc EXCEPT ![t].seen = InstantSeen(start)]
    /\ Goto(t, "gs_unlock")
    /\ UNCHANGED <<capturing, start, last_exposure, shutter_open, res, calls,
                   epoch, capEpoch, active>>

\* lines 423-428: Exposing(elapsed since the instant), or ExposureNotStarted
\* when there is no instant; the guard is dropped.
GsUnlock(t) ==
    /\ pc[t] = "gs_unlock"
    /\ startReaders' = startReaders \ {t}
    /\ IF loc[t].seen = None
       THEN Return(t, loc[t], "ExposureNotStarted", None)
       ELSE Return(t, loc[t], "Exposing", loc[t].seen)
    /\ UNCHANGED <<capturing, start, last_exposure, shutter_open, loc, calls,
                   epoch, capEpoch>>

GetState(t) ==
    \/ GsCall(t) /\ UNCHANGED gainVars /\ UNCHANGED ctlVars
    \/ GsStatus(t) /\ UNCHANGED gainVars /\ UNCHANGED ctlVars
    \/ GsIdle(t) /\ UNCHANGED gainVars /\ UNCHANGED ctlVars
    \/ GsFailed(t) /\ UNCHANGED gainVars /\ UNCHANGED ctlVars
    \/ GsFinished(t) /\ UNCHANGED gainVars /\ UNCHANGED ctlVars
    \/ GsRead(t) /\ UNCHANGED gainVars /\ UNCHANGED ctlVars
    \/ GsUnlock(t) /\ UNCHANGED gainVars /\ UNCHANGED ctlVars

----------------------------------------------------------------------------
\* AsiHandle::image_ready

\* lines 938-939: ExposureNotStarted when the flag is clear.
IrCall(t) ==
    \/ /\ ~capturing
       /\ EnterReturn(t, "image_ready", "ExposureNotStarted")
       /\ UNCHANGED <<capturing, start, startReaders, last_exposure,
                      shutter_open, epoch, capEpoch>>
    \/ /\ capturing
       /\ Enter(t, "image_ready", "ir_status")
       /\ UNCHANGED <<capturing, start, startReaders, last_exposure,
                      shutter_open, res, epoch, capEpoch, active>>

\* line 941: the value image_ready returns for a native status.
ImageReadyValue(stat) == IF stat = "Success" THEN "true" ELSE "false"

\* line 941: Ok(get_state_raw()? == Success).
IrStatus(t) ==
    /\ pc[t] = "ir_status"
    /\ NativeCall(t, "ASIGetExpStatus")
    /\ \E q \in StatusQueries :
         IF q[1] # "ASI_SUCCESS"
         THEN /\ loc' = [loc EXCEPT ![t].rc = q[1]]
              /\ Return(t, loc'[t], GenCamErrorOf(q[1]), None)
         ELSE /\ loc' = [loc EXCEPT ![t].rc = q[1],
                                    ![t].stat = ExposureStatusFrom(q[2])]
              /\ Return(t, loc'[t],
                        ImageReadyValue(ExposureStatusFrom(q[2])), None)
    /\ UNCHANGED <<capturing, start, startReaders, last_exposure,
                   shutter_open, epoch, capEpoch>>

ImageReady(t) ==
    \/ IrCall(t) /\ UNCHANGED gainVars /\ UNCHANGED ctlVars
    \/ IrStatus(t) /\ UNCHANGED gainVars /\ UNCHANGED ctlVars

----------------------------------------------------------------------------
\* AsiHandle::download_image

\* lines 505-507: ExposureNotStarted when the flag is clear.
DlCall(t) ==
    \/ /\ ~capturing
       /\ EnterReturn(t, "download_image", "ExposureNotStarted")
       /\ UNCHANGED <<capturing, start, startReaders, last_exposure,
                      shutter_open, epoch, capEpoch>>
    \/ /\ capturing
       /\ Enter(t, "download_image", "dl_status")
       /\ UNCHANGED <<capturing, start, startReaders, last_exposure,
                      shutter_open, res, epoch, capEpoch, active>>

\* lines 520-554: where download_image goes for each native status.
DlBranch(stat) ==
    CASE stat = "Working" -> "dl_working"
      [] stat = "Failed"  -> "dl_failed"
      [] stat = "Idle"    -> "dl_idle"
      [] stat = "Success" -> "dl_take"

\* lines 510-519: get_state_raw()?, then the temperature read (its failure
\* is replaced by a default) and the borrows of roi and last_exposure.
DlStatus(t) ==
    /\ pc[t] = "dl_status"
    /\ \E q \in StatusQueries :
         IF q[1] # "ASI_SUCCESS"
         THEN /\ loc' = [loc EXCEPT ![t].rc = q[1]]
              /\ NativeCall(t, "ASIGetExpStatus")
              /\ Return(t, loc'[t], GenCamErrorOf(q[1]), None)
         ELSE /\ loc' = [loc EXCEPT ![t].rc = q[1],
                                    ![t].stat = ExposureStatusFrom(q[2])]
              /\ calls' = [calls EXCEPT ![t] =
                             @ \o <<"ASIGetExpStatus", "ASIGetControlValue">>]
              /\ Goto(t, DlBranch(ExposureStatusFrom(q[2])))
              /\ UNCHANGED <<res, active>>
    /\ UNCHANGED <<capturing, start, startReaders, last_exposure,
                   shutter_open, epoch, capEpoch>>

\* line 521: Working is ExposureInProgress; nothing changes.
DlWorking(t) ==
    /\ pc[t] = "dl_working"
    /\ Return(t, loc[t], "ExposureInProgress", None)
    /\ UNCHANGED <<capturing, start, startReaders, last_exposure,
                   shutter_open, loc, calls, epoch, capEpoch>>

\* A download_image that clears the snapshot on Failed as it does on Idle.
LastExposureAfterFailed_Cleared(lexp) == None

\* lines 522-525: last_exposure after download_image found the status Failed.
LastExposureAfterFailed(lexp) == lexp

\* lines 522-525: Failed clears the flag and is ExposureFailed.
DlFailed(t) ==
    /\ pc[t] = "dl_failed"
    /\ capturing' = FALSE
    /\ last_exposure' = LastExposureAfterFailed(last_exposure)
    /\ Return(t, loc[t], "ExposureFailed", None)
    /\ UNCHANGED <<start, startReaders, shutter_open, loc, calls, epoch,
                   capEpoch>>

\* lines 527-528: Idle clears the flag, then last_exposure.
DlIdle(t) ==
    /\ pc[t] = "dl_idle"
    /\ capturing' = FALSE
    /\ last_exposure' = None
    /\ Goto(t, "dl_idle_start")
    /\ UNCHANGED <<start, startReaders, shutter_open, loc, res, calls, epoch,
                   capEpoch, active>>

\* lines 529-533: start.try_write()?.take(): AccessViolation when a reader
\* holds the lock, else the instant is cleared and ExposureNotStarted
\* returned.
DlIdleStart(t) ==
    /\ pc[t] = "dl_idle_start"
    /\ IF startReaders # {}
       THEN /\ Return(t, loc[t], "AccessViolation", None)
            /\ UNCHANGED start
       ELSE /\ start' = None
            /\ Return(t, loc[t], "ExposureNotStarted", None)
    /\ UNCHANGED <<capturing, startReaders, last_exposure, shutter_open, loc,
                   calls, epoch, capEpoch>>

\* lines 536-539: expinfo.take(); ExposureNotStarted when there is none.
DlTake(t) ==
    /\ pc[t] = "dl_take"
    /\ IF last_exposure = None
       THEN /\ Return(t, loc[t], "ExposureNotStarted", None)
            /\ UNCHANGED <<last_exposure, loc>>
       ELSE /\ loc' = [loc EXCEPT ![t].lexp = last_exposure]
            /\ last_exposure' = None
            /\ Goto(t, "dl_pull")
            /\ UNCHANGED <<res, active>>
    /\ UNCHANGED <<capturing, start, startReaders, shutter_open, calls,
                   epoch, capEpoch>>

\* line 542: ASIGetDataAfterExp(handle, ptr, len).
DlPull(t) ==
    /\ pc[t] = "dl_pull"
    /\ \E rc \in RetCodes : loc' = [loc EXCEPT ![t].rc = rc]
    /\ NativeCall(t, "ASIGetDataAfterExp")
    /\ Goto(t, "dl_done")
    /\ UNCHANGED <<capturing, start, startReaders, last_exposure,
                   shutter_open, res, epoch, capEpoch, active>>

\* A download_image that clears the flag only after a successful pull.
FlagAfterPull_OnlyOnSuccess(rc) == rc # "ASI_SUCCESS"

\* lines 542-551: the flag after the native data pull returned rc.
FlagAfterPull(rc) == FALSE

\* lines 558-587: what building the image from the buffer yields: the image,
\* InvalidFormat when the buffer does not fit the ROI, or GeneralError for
\* an unexpected pixel format.
ImageBuilds == {"Image", "InvalidFormat", "GeneralError"}

\* lines 588-605: the metadata of the image that depend on the snapshot.
BuildImage(expinfo) ==
    [tstamp   |-> expinfo.tstamp,
     EXPOSURE |-> expinfo.exposure,
     IMAGETYP |-> IF expinfo.darkframe THEN "Dark" ELSE "Light",
     GAIN     |-> IF expinfo.gain = None THEN 0 ELSE expinfo.gain[1]]

\* lines 542-553 and 555-643: the flag is cleared on either outcome; a
\* failed pull returns the mapped error, a successful one the image tagged
\* with the snapshot taken at start, or the error of building it.
DlDone(t) ==
    /\ pc[t] = "dl_done"
    /\ capturing' = FlagAfterPull(loc[t].rc)
    /\ IF loc[t].rc = "ASI_SUCCESS"
       THEN \E built \in ImageBuilds :
                Return(t, loc[t], built,
                       IF built = "Image"
                       THEN Some(BuildImage(loc[t].lexp[1])) ELSE None)
       ELSE Return(t, loc[t], PullErrorOf(loc[t].rc), None)
    /\ UNCHANGED <<start, startReaders, last_exposure, shutter_open, loc,
                   calls, epoch, capEpoch>>

DownloadImage(t) ==
    \/ DlCall(t) /\ UNCHANGED gainVars /\ UNCHANGED ctlVars
    \/ DlStatus(t) /\ UNCHANGED gainVars /\ UNCHANGED ctlVars
    \/ DlWorking(t) /\ UNCHANGED gainVars /\ UNCHANGED ctlVars
    \/ DlFailed(t) /\ UNCHANGED gainVars /\ UNCHANGED ctlVars
    \/ DlIdle(t) /\ UNCHANGED gainVars /\ UNCHANGED ctlVars
    \/ DlIdleStart(t) /\ UNCHANGED gainVars /\ UNCHANGED ctlVars
    \/ DlTake(t) /\ UNCHANGED gainVars /\ UNCHANGED ctlVars
    \/ DlPull(t) /\ UNCHANGED gainVars /\ UNCHANGED ctlVars
    \/ DlDone(t) /\ UNCHANGED gainVars /\ UNCHANGED ctlVars

----------------------------------------------------------------------------
\* The control surface of AsiHandle.  Each handler runs in one step; what it
\* was asked, the flag it loaded, what it returned and the native calls it
\* made, in order, are recorded in ctl.

\* A native call: the SDK function, the control type and the value passed,
\* and the code it returned.
Native(name, tag, val, rc) ==
    [name |-> name, tag |-> tag, val |-> val, rc |-> rc]

Control(t, op, prop, value, req, kind, out, natives) ==
    /\ pc[t] = "ready"
    /\ ctl' = [op |-> op, prop |-> prop, value |-> value, req |-> req,
               pre |-> capturing, kind |-> kind, out |-> out,
               natives |-> natives]

\* The return codes drawn for the native calls of the control surface:
\* success, a failure the wrapper reports as it is, and one it folds into
\* GeneralError.
CtlCodes == {"ASI_SUCCESS", "ASI_ERROR_INVALID_ID", "ASI_ERROR_GENERAL_ERROR"}

\* The outcomes of the two native calls of AsiRoi::set and AsiRoi::get: the
\* second call matters only after the first succeeded.
RoiOutcomes ==
    {<<rc, "ASI_SUCCESS">> : rc \in CtlCodes}
        \cup {<<"ASI_SUCCESS", rc>> : rc \in CtlCodes}

\* AsiRoi::set: the `?` after ASISetStartPos.
RoiSetProceeds(rc) == rc = "ASI_SUCCESS"

\* AsiRoi::set on a device that holds dev: the ROI the device holds
\* afterwards, the native calls made and the first failing return code.
AsiRoiSet(dev, r, rcs) ==
    LET posDone == [dev EXCEPT !.pos = IF rcs[1] = "ASI_SUCCESS"
                                       THEN r.pos ELSE @]
        setPos == Native("ASISetStartPos", "none", 0, rcs[1])
        setFmt == Native("ASISetROIFormat", "none", 0, rcs[2])
    IN  IF ~RoiSetProceeds(rcs[1])
        THEN [dev |-> posDone, natives |-> <<setPos>>, rc |-> rcs[1]]
        ELSE [dev |-> [posDone EXCEPT !.fmt = IF rcs[2] = "ASI_SUCCESS"
                                              THEN r.fmt ELSE @],
              natives |-> <<setPos, setFmt>>,
              rc |-> IF rcs[1] # "ASI_SUCCESS" THEN rcs[1] ELSE rcs[2]]

\* AsiRoi::get: the native calls made and the first failing return code.
AsiRoiGet(rcs) ==
    LET getPos == Native("ASIGetStartPos", "none", 0, rcs[1])
        getFmt == Native("ASIGetROIFormat", "none", 0, rcs[2])
    IN  IF rcs[1] # "ASI_SUCCESS"
        THEN [natives |-> <<getPos>>, rc |-> rcs[1]]
        ELSE [natives |-> <<getPos, getFmt>>, rc |-> rcs[2]]

\* AsiHandle::set_roi: AsiRoi::set, then the cache takes the requested ROI.
\* The handler does not load the capturing flag.
SetRoi(t) ==
    \E r \in AsiRois, rcs \in RoiOutcomes :
        LET s == AsiRoiSet(devRoi, r, rcs) IN
        /\ Control(t, "set_roi", Key("none", "none"), PValue("none", 0), r,
                   IF s.rc = "ASI_SUCCESS" THEN "Ok" ELSE GenCamErrorOf(s.rc),
                   None, s.natives)
        /\ devRoi' = s.dev
        /\ roi' = IF s.rc = "ASI_SUCCESS" THEN r ELSE roi
        /\ UNCHANGED <<captureVars, gainVars, info, caps, split, unitVars,
                   extVars>>

----------------------------------------------------------------------------
\* AsiHandle::set_property and AsiHandle::get_property

\* The generic control ids a caller asks for.  The device may or may not
\* have each of them in its catalog.
PropKeys == {Key("Analog", "Gain"), Key("Analog", "Gamma"),
             Key("Exposure", "ExposureTime"), Key("Device", "HighSpeedMode"),
             Key("Device", "Temperature"), Key("Device", "CoolerTemp"),
             Key("Device", "CoolerEnable"), Key("Device", "UUID"),
             Key("Sensor", "PixelFormat"), Key("Sensor", "ShutterMode")}

\* The values a caller passes: integers at and one unit outside the limits
\* of the control range, temperatures in hundredths of a degree (-10.0,
\* -10.05 and 1.55 degrees), booleans, pixel formats and a string.
PValues ==
    {PValue("Int", v) : v \in {CtrlMin - 1, CtrlMin, CtrlMax, CtrlMax + 1}}
        \cup {PValue("Float", h) : h \in {-1000, -1005, 155}}
        \cup {PValue("Bool", b) : b \in {0, 1}}
        \cup {PValue("PixelFmt", f) : f \in {8, 16, 32}}
        \cup {PValue("EnumStr", 0)}

\* What the device answers to ASIGetControlValue.
Readings == {-100, 150}

\* PropertyLims::validate: the value has the variant of the descriptor and
\* lies within its limits (for a pixel format: is one of the variants).
Validate(lims, value) ==
    /\ value.type = lims.kind
    /\ IF lims.kind = "PixelFmt" THEN value.v \in PixelFmtVariants
       ELSE lims.min <= value.v /\ value.v <= lims.max

\* value.try_into() at the call sites of set_property: succeeds for the
\* variant asked for.
TryInto(value, type) == value.type = type

\* Integer division that rounds toward zero, as the `as` cast of a float.
Trunc10(h) == IF h >= 0 THEN h \div 10 ELSE -((-h) \div 10)

\* A set_property that hands the degrees to the device unscaled.
TempToNative_Unscaled(h) == Trunc10(Trunc10(h))

\* set_property, Temperature arm: (val * 10.0) as i64, for a temperature of
\* h hundredths of a degree.
TempToNative(h) == Trunc10(h)

\* get_property: val as f64 * 0.1, in hundredths of a degree.
NativeToTemp(n) == n * 10

\* What a set_property call leaves behind.
Outcome(kind, natives) ==
    [kind |-> kind, natives |-> natives, roi |-> roi, devRoi |-> devRoi,
     devGain |-> devGain, shutter |-> shutter_open, flip |-> devFlip]

\* set_control_value: one ASISetControlValue call.  Only the gain the
\* device holds is tracked.
SetControlValue(tag, val, rc) ==
    [Outcome(IF rc = "ASI_SUCCESS" THEN "Ok" ELSE GenCamErrorOf(rc),
             <<Native("ASISetControlValue", tag, val, rc)>>)
        EXCEPT !.devGain = IF tag = "Gain" /\ rc = "ASI_SUCCESS" THEN val
                           ELSE @]

\* ASI_IMG_TYPE for a pixel depth.
FormatOf(bpp) == IF bpp = 8 THEN "RAW8" ELSE "RAW16"

\* set_property, the Sensor(PixelFormat) arm: validate, refuse while
\* capturing, read the ROI back (get_roi), replace its format, set_roi.
SetPixelFormat(lims, value, rcsGet, rcsSet) ==
    LET g == AsiRoiGet(rcsGet)
        r == [devRoi EXCEPT !.fmt = FormatOf(value.v)]
        s == AsiRoiSet(devRoi, r, rcsSet)
    IN  IF ~Validate(lims, value) THEN Outcome("PropertyError", <<>>)
        ELSE IF value.type # "PixelFmt"
        THEN Outcome("ValueNotSupported", <<>>)
        ELSE IF capturing THEN Outcome("ExposureInProgress", <<>>)
        ELSE IF g.rc # "ASI_SUCCESS"
        THEN Outcome(GenCamErrorOf(g.rc), g.natives)
        ELSE IF value.v \notin {8, 16}
        THEN [Outcome("ValueNotSupported", g.natives) EXCEPT !.roi = devRoi]
        ELSE [kind |-> IF s.rc = "ASI_SUCCESS" THEN "Ok"
                       ELSE GenCamErrorOf(s.rc),
              natives |-> g.natives \o s.natives,
              roi |-> IF s.rc = "ASI_SUCCESS" THEN r ELSE devRoi,
              devRoi |-> s.dev, devGain |-> devGain,
              shutter |-> shutter_open, flip |-> devFlip]

\* set_property, the Device(Custom("UUID")) arm.
SetUuid(value, rc) ==
    IF ~TryInto(value, "EnumStr") THEN Outcome("PropertyError", <<>>)
    ELSE Outcome(IF rc = "ASI_SUCCESS" THEN "Ok" ELSE GenCamErrorOf(rc),
                 <<Native("ASISetID", "none", 0, rc)>>)

\* set_property, the Sensor(ShutterMode) arm.
SetShutterMode(value) ==
    IF capturing THEN Outcome("ExposureInProgress", <<>>)
    ELSE IF ~TryInto(value, "Bool") THEN Outcome("PropertyError", <<>>)
    ELSE IF shutter_open = None THEN Outcome("NotFound", <<>>)
    ELSE [Outcome("Ok", <<>>) EXCEPT !.shutter = Some(value.v = 1)]

\* get_flip: the two booleans of an ASI_FLIP status, None for a value that
\* is none of the four.
FlipBools(n) ==
    CASE n = FlipNone  -> Some(<<FALSE, FALSE>>)
      [] n = FlipHoriz -> Some(<<TRUE, FALSE>>)
      [] n = FlipVert  -> Some(<<FALSE, TRUE>>)
      [] n = FlipBoth  -> Some(<<TRUE, TRUE>>)
      [] OTHER         -> None

\* set_flip: the ASI_FLIP status of two booleans.
FlipStatus(flipx, flipy) ==
    CASE ~flipx /\ ~flipy -> FlipNone
      [] flipx /\ ~flipy  -> FlipHoriz
      [] ~flipx /\ flipy  -> FlipVert
      [] OTHER            -> FlipBoth

\* set_property, the Flip arm: get_flip, convert the value, replace the
\* boolean the key names, set_flip.  rcs are the codes of the native read
\* and of the native write.
SetFlipProperty(prop, value, rcs) ==
    LET g == Native("ASIGetControlValue", "Flip", devFlip, rcs[1])
        cur == FlipBools(devFlip)
        flipx == IF prop = Key("Sensor", "ReverseX") THEN value.v = 1
                 ELSE cur[1][1]
        flipy == IF prop = Key("Sensor", "ReverseY") THEN value.v = 1
                 ELSE cur[1][2]
        n == FlipStatus(flipx, flipy)
        s == Native("ASISetControlValue", "Flip", n, rcs[2])
    IN  IF rcs[1] # "ASI_SUCCESS" THEN Outcome(GenCamErrorOf(rcs[1]), <<g>>)
        ELSE IF cur = None THEN Outcome("GeneralError", <<g>>)
        ELSE IF ~TryInto(value, "Bool") THEN Outcome("PropertyError", <<g>>)
        ELSE IF prop \notin {Key("Sensor", "ReverseX"),
                             Key("Sensor", "ReverseY")}
        THEN Outcome("NotFound", <<g>>)
        ELSE [Outcome(IF rcs[2] = "ASI_SUCCESS" THEN "Ok"
                      ELSE GenCamErrorOf(rcs[2]), <<g, s>>)
                EXCEPT !.flip = IF rcs[2] = "ASI_SUCCESS" THEN n ELSE @]

\* set_property, the arms of a control with a native tag.
SetNumeric(ctrl, value, rc) ==
    CASE ctrl \in {"Gain", "Gamma"} ->
            IF capturing THEN Outcome("ExposureInProgress", <<>>)
            ELSE IF ~TryInto(value, "Int") THEN Outcome("PropertyError", <<>>)
            ELSE SetControlValue(ctrl, value.v, rc)
      [] ctrl = "Temperature" ->
            IF ~TryInto(value, "Float") THEN Outcome("PropertyError", <<>>)
            ELSE SetControlValue(ctrl, TempToNative(value.v), rc)
      [] ctrl \in {"AutoExpMaxGain", "HighSpeedMode", "TargetTemp"} ->
            IF ~TryInto(value, "Int") THEN Outcome("PropertyError", <<>>)
            ELSE SetControlValue(ctrl, value.v, rc)
      [] OTHER -> Outcome("NotFound", <<>>)

\* set_property: the catalog lookup and the dispatch on the native tag.
SetPropertyOutcome(prop, value, rcsGet, rcsSet, rc) ==
    IF prop \notin DOMAIN caps THEN Outcome("NotFound", <<>>)
    ELSE IF caps[prop].tag = "Flip" THEN SetFlipProperty(prop, value, rcsGet)
    ELSE IF caps[prop].tag = "Invalid"
    THEN CASE prop = Key("Sensor", "PixelFormat") ->
                 SetPixelFormat(caps[prop].lims, value, rcsGet, rcsSet)
           [] prop = Key("Device", "UUID") -> SetUuid(value, rc)
           [] prop = Key("Sensor", "ShutterMode") -> SetShutterMode(value)
           [] OTHER -> Outcome("NotFound", <<>>)
    ELSE SetNumeric(caps[prop].tag, value, rc)

\* The return codes of the native calls a request can reach.
OneCall(used) == IF used THEN CtlCodes ELSE {"ASI_SUCCESS"}

TwoCalls(used) ==
    IF used THEN RoiOutcomes ELSE {<<"ASI_SUCCESS", "ASI_SUCCESS">>}

\* The requests whose first step is a pair of native calls.
PairFirst(prop) ==
    prop \in {Key("Sensor", "PixelFormat"), Key("Sensor", "ReverseX"),
              Key("Sensor", "ReverseY")}

SetProperty(t, keys, values) ==
    \E prop \in keys, value \in values :
    \E rcsGet \in TwoCalls(PairFirst(prop)) :
    \E rcsSet \in TwoCalls(prop = Key("Sensor", "PixelFormat")
                             /\ AsiRoiGet(rcsGet).rc = "ASI_SUCCESS"),
       rc \in OneCall(~PairFirst(prop)) :
        LET o == SetPropertyOutcome(prop, value, rcsGet, rcsSet, rc) IN
        /\ Control(t, "set_property", prop, value, NoRoi, o.kind, None,
                   o.natives)
        /\ roi' = o.roi
        /\ devRoi' = o.devRoi
        /\ devGain' = o.devGain
        /\ shutter_open' = o.shutter
        /\ devFlip' = o.flip
        /\ UNCHANGED <<capturing, start, startReaders, last_exposure, pc,
                       loc, res, calls, epoch, capEpoch, active, gain, info,
                       caps, split, unitVars, driverVars, unitRoiVars,
                       testVars, held>>

\* get_property, the arms of a control without a native tag.
GetSpecial(prop, rcsGet, rc) ==
    CASE prop = Key("Sensor", "PixelFormat") ->
            LET g == AsiRoiGet(rcsGet) IN
            IF g.rc # "ASI_SUCCESS"
            THEN [kind |-> GenCamErrorOf(g.rc), out |-> None,
                  natives |-> g.natives, roi |-> roi]
            ELSE [kind |-> "Ok",
                  out |-> Some(PValue("PixelFmt",
                                      IF devRoi.fmt = "RAW8" THEN 8 ELSE 16)),
                  natives |-> g.natives, roi |-> devRoi]
      [] prop = Key("Device", "UUID") ->
            [kind |-> IF rc = "ASI_SUCCESS" THEN "Ok" ELSE GenCamErrorOf(rc),
             out |-> IF rc = "ASI_SUCCESS" THEN Some(PValue("EnumStr", 0))
                     ELSE None,
             natives |-> <<Native("ASIGetID", "none", 0, rc)>>, roi |-> roi]
      [] prop = Key("Sensor", "ShutterMode") ->
            IF shutter_open = None
            THEN [kind |-> "NotFound", out |-> None, natives |-> <<>>,
                  roi |-> roi]
            ELSE [kind |-> "Ok",
                  out |-> Some(PValue("Bool",
                                      IF shutter_open[1] THEN 1 ELSE 0)),
                  natives |-> <<>>, roi |-> roi]
      [] OTHER -> [kind |-> "NotFound", out |-> None, natives |-> <<>>,
                   roi |-> roi]

\* get_property: one ASIGetControlValue call for a control with a native
\* tag; only a Temperature reading is scaled.
GetPropertyOutcome(prop, rcsGet, rc, n) ==
    IF prop \notin DOMAIN caps
    THEN [kind |-> "NotFound", out |-> None, natives |-> <<>>, roi |-> roi]
    ELSE IF caps[prop].tag = "Invalid" THEN GetSpecial(prop, rcsGet, rc)
    ELSE [kind |-> IF rc = "ASI_SUCCESS" THEN "Ok" ELSE GenCamErrorOf(rc),
          out |-> IF rc # "ASI_SUCCESS" THEN None
                  ELSE IF caps[prop].tag = "Temperature"
                  THEN Some(PValue("Float", NativeToTemp(n)))
                  ELSE Some(PValue("Int", n)),
          natives |-> <<Native("ASIGetControlValue", caps[prop].tag, n, rc)>>,
          roi |-> roi]

GetProperty(t, keys) ==
    \E prop \in keys :
    \E rcsGet \in TwoCalls(prop = Key("Sensor", "PixelFormat")),
       rc \in OneCall(prop # Key("Sensor", "PixelFormat")),
       n \in (IF prop \notin DOMAIN caps THEN Readings
              ELSE IF caps[prop].tag = "Gain" THEN {devGain}
              ELSE IF caps[prop].tag = "Flip" THEN {devFlip}
              ELSE Readings) :
        LET o == GetPropertyOutcome(prop, rcsGet, rc, n) IN
        /\ Control(t, "get_property", prop, PValue("none", 0), NoRoi, o.kind,
                   o.out, o.natives)
        /\ roi' = o.roi
        /\ UNCHANGED <<captureVars, gainVars, devRoi, info, caps, split,
                       unitVars,
                   extVars>>

----------------------------------------------------------------------------
\* impl Drop for AsiHandle

\* A teardown that gives up at the first native call that fails.
DropProceeds_OnlyOnSuccess(rc) == rc = "ASI_SUCCESS"

\* Drop: `if let Err(e) = ... { warn!(..) }`: a failure is logged and the
\* teardown goes on.
DropProceeds(rc) == TRUE

\* The native calls of Drop, in order: stop the exposure, switch the cooler
\* off when the camera has one, close the camera.
DropCalls(hasCooler, rcStop, rcCooler, rcClose) ==
    LET stop   == <<Native("ASIStopExposure", "none", 0, rcStop)>>
        cooler == IF hasCooler
                  THEN <<Native("ASISetControlValue", "CoolerOn", 0,
                                rcCooler)>>
                  ELSE <<>>
        close  == <<Native("ASICloseCamera", "none", 0, rcClose)>>
    IN  IF ~DropProceeds(rcStop) THEN stop
        ELSE IF hasCooler /\ ~DropProceeds(rcCooler) THEN stop \o cooler
        ELSE stop \o cooler \o close

\* The handle is dropped between two calls; nothing can be called on it
\* afterwards.  Drop returns nothing and touches no field.
Drop(t) ==
    \E rcStop \in CtlCodes, rcCooler \in OneCall(info.IsCoolerCam),
       rcClose \in CtlCodes :
        /\ Control(t, "drop", Key("none", "none"), PValue("none", 0), NoRoi,
                   "none", None,
                   DropCalls(info.IsCoolerCam, rcStop, rcCooler, rcClose))
        /\ pc' = [pc EXCEPT ![t] = "dropped"]
        /\ UNCHANGED <<capturing, start, startReaders, last_exposure,
                       shutter_open, loc, res, calls, epoch, capEpoch, active,
                       roiVars, gainVars, info, caps, split, unitVars,
                   extVars>>

----------------------------------------------------------------------------
\* CameraUnitASI and CameraInfoASI.  Both hold the same Arc<Mutex<bool>>;
\* every handler below takes the lock first and keeps it until it returns,
\* so each runs in one step.

\* The two handles of one camera.
Handles == {"unit", "info"}

\* The wrappers of asicamera_2.rs report INVALID_ID and CAMERA_CLOSED and
\* take every other return code for a success.
UnitErrorOf(code) ==
    CASE code = "ASI_ERROR_INVALID_ID"    -> "InvalidId"
      [] code = "ASI_ERROR_CAMERA_CLOSED" -> "CameraClosed"
      [] OTHER                            -> "Ok"

\* ASIExposureStatus::from_u32: an unknown value is an error.
UnitStatusFrom(raw) ==
    CASE raw = "ASI_EXP_IDLE"    -> "Idle"
      [] raw = "ASI_EXP_WORKING" -> "Working"
      [] raw = "ASI_EXP_SUCCESS" -> "Success"
      [] raw = "ASI_EXP_FAILED"  -> "Failed"
      [] OTHER                   -> "InvalidMode"

\* get_exposure_status: the error it returns, or the status.
GetExposureStatus(rc, raw) ==
    IF UnitErrorOf(rc) # "Ok" THEN UnitErrorOf(rc) ELSE UnitStatusFrom(raw)

UnitStatuses == {"Idle", "Working", "Success", "Failed"}

UnitReturn(op, who, kind, stat, natives, flag) ==
    /\ cuRes' = [op |-> op, who |-> who, kind |-> kind, pre |-> cuCapturing,
                 stat |-> stat, natives |-> natives]
    /\ cuCapturing' = flag
    /\ UNCHANGED <<captureVars, roiVars, gainVars, info, caps, ctl, split,
                   driverVars, unitRoiVars, devFlip, held>>

\* CameraUnitASI::start_exposure, when ASIGetExpStatus returns rcq and stores
\* raw, and ASIStartExposure returns rc.
CuStartExposureWith(rcq, raw, rc) ==
        LET stat  == GetExposureStatus(rcq, raw)
            query == <<Native("ASIGetExpStatus", "none", 0, rcq)>>
            begin == <<Native("ASIStartExposure", "none", 0, rc)>>
        IN  IF stat \notin UnitStatuses
            THEN UnitReturn("start_exposure", "unit", stat, "None", query,
                            cuCapturing)
            ELSE IF stat = "Working"
            THEN UnitReturn("start_exposure", "unit", "ExposureInProgress",
                            stat, query, TRUE)
            ELSE UnitReturn("start_exposure", "unit", UnitErrorOf(rc), stat,
                            query \o begin, UnitErrorOf(rc) = "Ok")

CuStartExposure ==
    \E rcq \in RetCodes, raw \in RawStatuses, rc \in RetCodes :
        CuStartExposureWith(rcq, raw, rc)

\* cancel_capture: `sys_cancel_capture(id)?; *capturing = false;`.
CancelClears(rc) == UnitErrorOf(rc) = "Ok"

\* CameraUnitASI::cancel_capture and CameraInfoASI::cancel_capture, which
\* have the same body.
CuCancelCapture(who) ==
    \E rc \in (IF cuCapturing THEN RetCodes ELSE {"ASI_SUCCESS"}) :
        IF ~cuCapturing
        THEN UnitReturn("cancel_capture", who, "Ok", "None", <<>>, cuCapturing)
        ELSE UnitReturn("cancel_capture", who, UnitErrorOf(rc), "None",
                        <<Native("ASIStopExposure", "none", 0, rc)>>,
                        IF CancelClears(rc) THEN FALSE ELSE cuCapturing)

\* CameraUnitASI::image_ready, when ASIGetExpStatus returns rcq and stores
\* raw.
CuImageReadyWith(rcq, raw) ==
        LET stat  == GetExposureStatus(rcq, raw)
            query == <<Native("ASIGetExpStatus", "none", 0, rcq)>>
        IN  CASE stat \notin UnitStatuses ->
                    UnitReturn("image_ready", "unit", stat, "None", query,
                               cuCapturing)
              [] stat = "Working" ->
                    UnitReturn("image_ready", "unit", "false", stat, query,
                               cuCapturing)
              [] stat = "Success" ->
                    UnitReturn("image_ready", "unit", "true", stat, query,
                               cuCapturing)
              [] OTHER ->
                    UnitReturn("image_ready", "unit", "ExposureFailed", stat,
                               query, FALSE)

CuImageReady ==
    \E rcq \in RetCodes, raw \in RawStatuses : CuImageReadyWith(rcq, raw)

\* The image formats ASIGetROIFormat can report; ASIImageFormat::from_u32
\* knows all but Y8.
UnitFormats == {"RAW8", "RGB24", "RAW16", "Y8"}

\* A download that does not look at the return value of the data call.
DataErrorOf_Ignored(code) == "Ok"

\* The checks on the return value of ASIGetDataAfterExp.
DataErrorOf(code) ==
    CASE code = "ASI_ERROR_INVALID_ID"    -> "InvalidId"
      [] code = "ASI_ERROR_CAMERA_CLOSED" -> "CameraClosed"
      [] code = "ASI_ERROR_TIMEOUT"       -> "TimedOut"
      [] OTHER                            -> "Ok"

\* CameraUnitASI::download_image, when ASIGetExpStatus returns rcq and stores
\* raw, ASIGetROIFormat returns rcf and reports fmt, and ASIGetDataAfterExp
\* returns rcd.  The flag is cleared when the status is Failed or Idle, and
\* after a data call that returned none of the three codes checked.
CuDownloadImageWith(rcq, raw, rcf, fmt, rcd) ==
        LET stat   == GetExposureStatus(rcq, raw)
            query  == <<Native("ASIGetExpStatus", "none", 0, rcq)>>
            format == <<Native("ASIGetROIFormat", fmt, 0, rcf)>>
            data   == <<Native("ASIGetDataAfterExp", "none", 0, rcd)>>
        IN  CASE stat \notin UnitStatuses ->
                    UnitReturn("download_image", "unit", stat, "None", query,
                               cuCapturing)
              [] stat = "Working" ->
                    UnitReturn("download_image", "unit", "ExposureInProgress",
                               stat, query, cuCapturing)
              [] stat \in {"Failed", "Idle"} ->
                    UnitReturn("download_image", "unit", "ExposureFailed",
                               stat, query, FALSE)
              [] OTHER ->
                    IF UnitErrorOf(rcf) # "Ok"
                    THEN UnitReturn("download_image", "unit", UnitErrorOf(rcf),
                                    stat, query \o format, cuCapturing)
                    ELSE IF fmt = "Y8"
                    THEN UnitReturn("download_image", "unit", "InvalidMode",
                                    stat, query \o format, cuCapturing)
                    ELSE IF DataErrorOf(rcd) # "Ok"
                    THEN UnitReturn("download_image", "unit", DataErrorOf(rcd),
                                    stat, query \o format \o data,
                                    cuCapturing)
                    ELSE UnitReturn("download_image", "unit", "Image", stat,
                                    query \o format \o data, FALSE)

CuDownloadImage ==
    \E rcq \in RetCodes, raw \in RawStatuses, rcf \in RetCodes,
       fmt \in UnitFormats, rcd \in RetCodes :
        CuDownloadImageWith(rcq, raw, rcf, fmt, rcd)

----------------------------------------------------------------------------
\* get_split_ctrl

\* A split that files every control on the sensor side as well.
SensorKeys_All(c) == DOMAIN c

\* get_split_ctrl: `if let GenCamCtrl::Device(_) = k`.
DeviceKeys(c) == {k \in DOMAIN c : k.facet = "Device"}

\* get_split_ctrl: the else branch.
SensorKeys(c) == {k \in DOMAIN c : k.facet # "Device"}

\* One half of the split: mcaps holds the native tag and dcaps the
\* descriptor of each key filed there.
SubCtrl(c, keys) ==
    [mcaps |-> [k \in keys |-> c[k].tag], dcaps |-> [k \in keys |-> c[k].lims]]

\* get_split_ctrl: the catalog divided into (AsiSensorCtrl, AsiDeviceCtrl).
GetSplitCtrl(c) ==
    [sctrl |-> SubCtrl(c, SensorKeys(c)), dctrl |-> SubCtrl(c, DeviceKeys(c))]

SplitCtrl ==
    /\ split = None
    /\ split' = Some(GetSplitCtrl(caps))
    /\ UNCHANGED <<captureVars, roiVars, gainVars, info, caps, ctl, unitVars,
                   extVars>>

----------------------------------------------------------------------------
\* Every operation of the imager, which holds the handle.
Imager(t) ==
    \/ StartExposure(t) \/ DownloadImage(t) \/ StopExposure(t)
    \/ GetState(t) \/ ImageReady(t)

\* The operations open to a handle that shares only the capturing flag and
\* the start instant: camera_state and cancel_capture.
Info(t) == GetState(t) \/ StopExposure(t)

\* One thread, every call run to completion before the next begins.
Next == Imager("imager")

Spec == Init /\ [][Next]_vars

\* The imager and an info handle on another thread, freely interleaved.
NextConc ==
    \/ StartExposure("imager") \/ DownloadImage("imager")
    \/ Info("info")

SpecConc == Init /\ [][NextConc]_vars

\* Two callers of start_exposure on the same capture state.
NextRace == StartExposure("imager") \/ StartExposure("caller2")

SpecRace == Init /\ [][NextRace]_vars

\* The ROI and the pixel format, set on the thread that holds the handle,
\* before an exposure is started and during it.
RoiKeys == {Key("Sensor", "PixelFormat")}

RoiValues == {v \in PValues : v.type \in {"PixelFmt", "Int"} /\ v.v >= CtrlMax}

NextRoi ==
    \/ StartExposure("imager")
    \/ SetRoi("imager")
    \/ SetProperty("imager", RoiKeys, RoiValues)

SpecRoi == InitWith({inf \in CaptureInfos : ~inf.MechanicalShutter},
                    {FullList})
            /\ [][NextRoi]_vars

\* Writes to the analog controls, before an exposure is started and during
\* it, for both orders in which the device can report Gain and
\* AutoExpMaxGain.
GainKeys == {Key("Analog", "Gain"), Key("Analog", "Gamma")}

GainValues == {v \in PValues : v.type = "Int" \/ v = PValue("Bool", 1)}

NextGain ==
    \/ StartExposure("imager")
    \/ SetProperty("imager", GainKeys, GainValues)
    \/ GetProperty("imager", GainKeys)

SpecGain == InitWith({inf \in CaptureInfos : ~inf.MechanicalShutter},
                     {FullList, [FullList EXCEPT !.gainLast = TRUE]})
             /\ [][NextGain]_vars

\* Writes and reads of the temperature controls.
TempKeys == {Key("Device", "Temperature"), Key("Device", "CoolerTemp")}

TempValues == {v \in PValues : v.type = "Float" \/ v = PValue("Int", CtrlMax)}

NextTemp ==
    \/ StartExposure("imager")
    \/ SetProperty("imager", TempKeys, TempValues)
    \/ GetProperty("imager", TempKeys)

SpecTemp == InitWith({inf \in Infos : inf.IsCoolerCam /\ inf.IsUSB3Camera
                                      /\ ~inf.MechanicalShutter},
                     {FullList})
             /\ [][NextTemp]_vars

\* The life of a handle up to its teardown, for cameras with and without a
\* cooler.
NextDrop ==
    \/ StartExposure("imager") \/ StopExposure("imager")
    \/ Drop("imager")

SpecDrop == InitWith({inf \in Infos : inf.IsUSB3Camera
                                      /\ ~inf.MechanicalShutter},
                     {FullList})
            /\ [][NextDrop]_vars

\* The capture calls of CameraUnitASI, with cancel_capture coming from the
\* unit itself or from its CameraInfoASI.
NextUnit ==
    \/ CuStartExposure /\ UNCHANGED testVars
    \/ CuImageReady /\ UNCHANGED testVars
    \/ CuDownloadImage /\ UNCHANGED testVars
    \/ \E who \in Handles : CuCancelCapture(who) /\ UNCHANGED testVars

SpecUnit == Init /\ [][NextUnit]_vars

\* The catalog of every camera and every capability list, and its split.
NextSplit == SplitCtrl

SpecSplit == InitWith(Infos, CapLists) /\ [][NextSplit]_vars

----------------------------------------------------------------------------
\* Properties.

Issued(t, name) == \E i \in 1..Len(calls[t]) : calls[t][i] = name

\* The imager is between two calls; r is what its last call returned.
Returned(op) == pc["imager"] = "ready" /\ res["imager"].op = op

\* C1: after any sequence of completed start_exposure, download_image,
\* cancel (stop_exposure) and poll calls, capturing is true exactly when a
\* start_exposure returned Ok and no later download, cancel or reported
\* failure resolved it; a poll that finds Working or Success leaves the flag
\* set, and the download that finds Success clears it.
C1_CapturingIffUnresolvedStart ==
    LET r == res["imager"] IN
    pc["imager"] = "ready" =>
        /\ capturing = active
        /\ (r.op \in {"image_ready", "get_state"} /\ r.pre
               /\ r.stat \in {"Working", "Success"}) => capturing
        /\ (r.op = "download_image" /\ r.pre /\ r.stat = "Working")
               => capturing
        /\ (r.op = "download_image" /\ r.pre /\ r.stat = "Success")
               => ~capturing

\* C1 witness: a started exposure was downloaded and the flag is clear.
C1_Witness ==
    /\ Returned("download_image")
    /\ res["imager"].kind = "Image"
    /\ res["imager"].stat = "Success"
    /\ ~capturing /\ ~active /\ epoch >= 1

\* C2: a start_exposure that finds capturing set returns
\* ExposureInProgress, issues no native start call, and leaves capturing
\* and last_exposure as they were.
C2_SecondStartRefused ==
    LET r == res["imager"] IN
    (Returned("start_exposure") /\ r.pre) =>
        /\ r.kind = "ExposureInProgress"
        /\ ~Issued("imager", "ASIStartExposure")
        /\ capturing
        /\ last_exposure = r.lexp0

\* C2 witness: a second start was refused while an exposure was running.
C2_Witness ==
    /\ Returned("start_exposure")
    /\ res["imager"].pre
    /\ res["imager"].kind = "ExposureInProgress"
    /\ last_exposure # None

\* C3 as claimed: capturing implies last_exposure is Some in every state,
\* the steps inside start_exposure and download_image included.
C3_SnapshotWheneverCapturing == capturing => last_exposure # None

InStartOrDownload ==
    pc["imager"] \in {"se_store", "se_snapshot", "se_instant", "se_native",
                      "se_rollback", "se_commit", "dl_status", "dl_working",
                      "dl_failed", "dl_idle", "dl_idle_start", "dl_take",
                      "dl_pull", "dl_done"}

\* C3 as amended: capturing implies last_exposure is Some whenever the
\* imager is not inside start_exposure or download_image.
C3_SnapshotWheneverCapturingBetweenCalls ==
    (capturing /\ ~InStartOrDownload) => last_exposure # None

\* C3 witness: start_exposure returned Ok, the flag is set and the snapshot
\* is stored.
C3_Witness ==
    /\ Returned("start_exposure")
    /\ res["imager"].kind = "Ok"
    /\ capturing
    /\ last_exposure # None

\* C4: whenever capturing is true, start holds the instant of the exposure
\* that set the flag (it is neither absent nor that of an earlier
\* exposure), so that no concurrent reader can see the flag without it.
C4_InstantCommittedWhileCapturing == capturing => start = Some(capEpoch)

C6_StartFailureRollsBack ==
    LET r == res["imager"] IN
    (Returned("start_exposure") /\ r.rc \notin {"None", "ASI_SUCCESS"}) =>
        /\ ~capturing
        /\ r.kind = CASE r.rc = "ASI_ERROR_INVALID_ID"    -> "InvalidId"
                      [] r.rc = "ASI_ERROR_CAMERA_CLOSED" -> "CameraClosed"
                      [] OTHER                            -> "GeneralError"

\* C6 witness: the native start call reported a closed camera.
C6_Witness ==
    /\ Returned("start_exposure")
    /\ res["imager"].rc = "ASI_ERROR_CAMERA_CLOSED"
    /\ res["imager"].kind = "CameraClosed"
    /\ Issued("imager", "ASIStartExposure")
    /\ ~capturing

\* C7: a download_image that found capturing set and the native status
\* Success returns with capturing false whatever the data pull returned,
\* and a Timeout of the pull is TimedOut.
C7_FlagClearAfterPull ==
    LET r == res["imager"] IN
    (Returned("download_image") /\ r.pre /\ r.stat = "Success") =>
        /\ ~capturing
        /\ Issued("imager", "ASIGetDataAfterExp")
        /\ (r.rc = "ASI_ERROR_TIMEOUT" => r.kind = "TimedOut")
        /\ (r.rc = "ASI_SUCCESS" => r.kind \in ImageBuilds)
        /\ (r.rc \notin {"ASI_SUCCESS", "ASI_ERROR_TIMEOUT"} =>
               r.kind \in {"InvalidId", "CameraClosed", "GeneralError"})

\* C7 witness: the data pull timed out.
C7_Witness ==
    /\ Returned("download_image")
    /\ res["imager"].pre
    /\ res["imager"].stat = "Success"
    /\ res["imager"].rc = "ASI_ERROR_TIMEOUT"
    /\ res["imager"].kind = "TimedOut"
    /\ ~capturing

\* C8 as claimed: after a download_image that found the status Success,
\* Failed or Idle last_exposure is None; one that found Working leaves it
\* untouched.
C8_SnapshotClearedByEveryEndingDownload ==
    LET r == res["imager"] IN
    (Returned("download_image") /\ r.pre) =>
        /\ r.stat \in {"Success", "Failed", "Idle"} => last_exposure = None
        /\ r.stat = "Working" => last_exposure = r.lexp0

\* C8 as amended: Success and Idle clear last_exposure; Working and Failed
\* leave the snapshot of the running exposure untouched.
C8_SnapshotClearedBySuccessOrIdle ==
    LET r == res["imager"] IN
    (Returned("download_image") /\ r.pre) =>
        /\ r.stat \in {"Success", "Idle"} => last_exposure = None
        /\ r.stat \in {"Working", "Failed"} =>
               (last_exposure = r.lexp0 /\ last_exposure # None)

\* C8 witness: a download found the status Failed; the snapshot is kept.
C8_Witness ==
    /\ Returned("download_image")
    /\ res["imager"].pre
    /\ res["imager"].stat = "Failed"
    /\ res["imager"].kind = "ExposureFailed"
    /\ last_exposure # None
    /\ ~capturing

\* C9: get_state called while capturing: Working is Exposing(elapsed since
\* the instant of the running exposure) with the flag kept, Success is
\* ExposureFinished with the flag kept, Failed clears the flag and is
\* ExposureFailed, Idle clears the flag and is ExposureNotStarted.
C9_StateFollowsNativeStatus ==
    LET r == res["imager"] IN
    (Returned("get_state") /\ r.pre) =>
        /\ r.stat = "Working" =>
               (r.kind = "Exposing" /\ r.arg = Some(capEpoch) /\ capturing)
        /\ r.stat = "Success" => (r.kind = "ExposureFinished" /\ capturing)
        /\ r.stat = "Failed" => (r.kind = "ExposureFailed" /\ ~capturing)
        /\ r.stat = "Idle" =>
               (r.kind = "Errored(ExposureNotStarted)" /\ ~capturing)

\* C9 witness: get_state reported Exposing for a running exposure.
C9_Witness ==
    /\ Returned("get_state")
    /\ res["imager"].pre
    /\ res["imager"].stat = "Working"
    /\ res["imager"].kind = "Exposing"
    /\ capturing

\* C10: image_ready called while capturing: Working is false, Success is
\* true, Failed clears the flag and is ExposureFailed, Idle clears the flag
\* and is ExposureNotStarted.
C10_ImageReadyFollowsNativeStatus ==
    LET r == res["imager"] IN
    (Returned("image_ready") /\ r.pre) =>
        /\ r.stat = "Working" => r.kind = "false"
        /\ r.stat = "Success" => r.kind = "true"
        /\ r.stat = "Failed" => (r.kind = "ExposureFailed" /\ ~capturing)
        /\ r.stat = "Idle" => (r.kind = "ExposureNotStarted" /\ ~capturing)

\* C11: a camera_state (get_state) or image_ready call that finds capturing
\* clear returns Idle, respectively false, issues no native call and leaves
\* the capture state as it was.
C11_IdleFastPath ==
    LET r == res["imager"] IN
    (pc["imager"] = "ready" /\ r.op \in {"get_state", "image_ready"}
        /\ ~r.pre) =>
        /\ calls["imager"] = <<>>
        /\ ~capturing
        /\ last_exposure = r.lexp0
        /\ (r.op = "get_state" => r.kind = "Idle")
        /\ (r.op = "image_ready" => r.kind = "false")

\* C12: a ROI change (set_roi) or a pixel-format change (set_property on
\* Sensor(PixelFormat)) requested while capturing is true returns
\* ExposureInProgress and issues no native call.  A pixel-format change is a
\* set_property with a pixel format the camera supports.
C12_RoiChangeRefusedWhileCapturing ==
    (/\ ctl.pre
     /\ \/ ctl.op = "set_roi"
        \/ /\ ctl.op = "set_property"
           /\ ctl.prop = Key("Sensor", "PixelFormat")
           /\ ctl.value.type = "PixelFmt"
           /\ ctl.value.v \in PixelFmtVariants) =>
        /\ ctl.kind = "ExposureInProgress"
        /\ ctl.natives = <<>>

\* C13: a set_roi never leaves the device with one half of the requested
\* ROI: afterwards the device holds the ROI it held before, or the requested
\* one.
C13_NoMixedRoiAfterSetRoi ==
    [][SetRoi("imager") => (devRoi' = devRoi \/ devRoi' = ctl'.req)]_vars

\* The SDK functions a control operation called, in order.
NativeNames(c) == [i \in 1..Len(c.natives) |-> c.natives[i].name]

\* C14 as stated: tearing down a handle calls stop-exposure, then
\* cooler-disable, then close, whatever the earlier calls returned.
C14_TeardownAlwaysThreeCalls ==
    ctl.op = "drop" =>
        NativeNames(ctl) = <<"ASIStopExposure", "ASISetControlValue",
                             "ASICloseCamera">>

\* C14, amended: tearing down a handle calls stop-exposure, then
\* cooler-disable if the camera has a cooler, then close, in that order and
\* each once, whatever the earlier calls returned.
C14_TeardownStopCoolerIfPresentClose ==
    ctl.op = "drop" =>
        /\ NativeNames(ctl) =
              IF info.IsCoolerCam
              THEN <<"ASIStopExposure", "ASISetControlValue",
                     "ASICloseCamera">>
              ELSE <<"ASIStopExposure", "ASICloseCamera">>
        /\ info.IsCoolerCam =>
              (ctl.natives[2].tag = "CoolerOn" /\ ctl.natives[2].val = 0)

\* A teardown during an exposure in which the stop call and the cooler call
\* both failed and the camera was closed nevertheless.
C14_Witness ==
    /\ ctl.op = "drop"
    /\ ctl.pre
    /\ info.IsCoolerCam
    /\ Len(ctl.natives) = 3
    /\ ctl.natives[1].rc # "ASI_SUCCESS"
    /\ ctl.natives[2].rc # "ASI_SUCCESS"
    /\ ctl.natives[3].name = "ASICloseCamera"

\* C15: a set_property whose value has the variant of the control but lies
\* one unit outside its range is rejected with a PropertyError before any
\* native call; the minimum and the maximum are passed to the native setter.
C15_RangeCheckedBeforeNativeCall ==
    LET lims == caps[ctl.prop].lims IN
    (/\ ctl.op = "set_property"
     /\ ~ctl.pre
     /\ ctl.prop \in DOMAIN caps
     /\ ctl.value.type = lims.kind) =>
        /\ ctl.value.v \in {lims.min - 1, lims.max + 1} =>
              (ctl.kind = "PropertyError" /\ ctl.natives = <<>>)
        /\ ctl.value.v \in {lims.min, lims.max} =>
              (ctl.kind # "PropertyError" /\ ctl.natives # <<>>)

\* C17: a set_property on the Gain or the Gamma control while capturing is
\* true returns ExposureInProgress and issues no native call.
C17_GainWriteRefusedWhileCapturing ==
    (ctl.op = "set_property" /\ ctl.pre /\ ctl.prop \in GainKeys) =>
        /\ ctl.kind = "ExposureInProgress"
        /\ ctl.natives = <<>>

\* The control operation reached the native getter or setter of the control
\* with the native tag `tag`.
OnTag(op, tag) ==
    /\ ctl.op = op
    /\ Len(ctl.natives) = 1
    /\ ctl.natives[1].tag = tag

C18_CancelClearsCapturing ==
    (cuRes.op = "cancel_capture" /\ cuRes.pre) =>
        /\ Len(cuRes.natives) = 1
        /\ cuRes.natives[1].name = "ASIStopExposure"
        /\ ~cuCapturing

\* An exposure is running and the imager is between two calls.
ExposureRunning == capturing /\ active /\ pc["imager"] = "ready"

C20_SplitPartitionsCatalog ==
    split # None =>
        LET sc == split[1].sctrl
            dc == split[1].dctrl
        IN  /\ DOMAIN sc.mcaps \cap DOMAIN dc.mcaps = {}
            /\ DOMAIN sc.mcaps \cup DOMAIN dc.mcaps = DOMAIN caps
            /\ DOMAIN sc.dcaps = DOMAIN sc.mcaps
            /\ DOMAIN dc.dcaps = DOMAIN dc.mcaps
            /\ \A k \in DOMAIN sc.mcaps :
                  sc.mcaps[k] = caps[k].tag /\ sc.dcaps[k] = caps[k].lims
            /\ \A k \in DOMAIN dc.mcaps :
                  dc.mcaps[k] = caps[k].tag /\ dc.dcaps[k] = caps[k].lims

\* A catalog with analog, exposure, sensor and device controls was split,
\* and each side received some of them.
C20_Witness ==
    /\ split # None
    /\ Key("Analog", "Gain") \in DOMAIN split[1].sctrl.mcaps
    /\ Key("Exposure", "ExposureTime") \in DOMAIN split[1].sctrl.mcaps
    /\ Key("Sensor", "ShutterMode") \in DOMAIN split[1].sctrl.mcaps
    /\ Key("Device", "Temperature") \in DOMAIN split[1].dctrl.mcaps
    /\ Key("Device", "UUID") \in DOMAIN split[1].dctrl.mcaps

\* ---------------------------------------------------------------------------
\* Listing the devices: get_asi_devs, which GenCamDriverAsi::list_devices
\* calls and whose error it maps (get_asi_devs itself never fails).

\* Bound on the number of cameras the SDK reports as connected.
MaxCameras == 2

\* What the native calls made for one camera return.
CameraCodes == [prop : CtlCodes, open : CtlCodes, sn : CtlCodes]

\* The inner get_sn(handle): ASIOpenCamera, then ASIGetSerialNumber through
\* ASICALL, each leaving with `.ok()?` on a failure; after a successful read
\* the serial number is read a second time and the camera is closed.  The
\* result is the serial number or None, the cameras left open, and the
\* native calls made.
GetSn(id, c, open) ==
    LET o == Native("ASIOpenCamera", "none", id, c.open)
        g == Native("ASIGetSerialNumber", "none", id, c.sn)
        x == Native("ASICloseCamera", "none", id, "ASI_SUCCESS")
    IN  IF c.open # "ASI_SUCCESS"
        THEN [sn |-> None, open |-> open, natives |-> <<o>>]
        ELSE IF c.sn # "ASI_SUCCESS"
        THEN [sn |-> None, open |-> open \cup {id}, natives |-> <<o, g>>]
        ELSE [sn |-> Some(id), open |-> open \ {id},
              natives |-> <<o, g, g, x>>]

\* The loop of get_asi_devs over the ids from..(n - 1): a camera whose
\* ASIGetCameraProperty fails is left out; every other camera gets a
\* descriptor, with the serial number "Unknown" when get_sn returned None.
RECURSIVE GetAsiDevs(_, _, _, _)
GetAsiDevs(from, n, codes, acc) ==
    IF from >= n THEN acc
    ELSE LET c == codes[from]
             p == Native("ASIGetCameraProperty", "none", from, c.prop)
             s == GetSn(from, c, acc.open)
         IN  IF c.prop # "ASI_SUCCESS"
             THEN GetAsiDevs(from + 1, n, codes,
                             [acc EXCEPT !.natives = @ \o <<p>>])
             ELSE GetAsiDevs(from + 1, n, codes,
                    [devs    |-> Append(acc.devs,
                                   [id |-> from,
                                    sn |-> IF s.sn = None THEN "Unknown"
                                           ELSE s.sn[1]]),
                     open    |-> s.open,
                     natives |-> acc.natives \o <<p>> \o s.natives])

\* GenCamDriverAsi::list_devices.
ListDevices ==
    \E n \in 0..MaxCameras :
        \E codes \in [0..(n - 1) -> CameraCodes] :
            LET r == GetAsiDevs(0, n, codes,
                       [devs |-> <<>>, open |-> opened, natives |-> <<>>])
            IN  /\ drv' = [op |-> "list_devices", kind |-> "Ok",
                           out |-> r.devs, natives |-> r.natives]
                /\ opened' = r.open
                /\ UNCHANGED <<captureVars, roiVars, gainVars, info, caps,
                               ctl, split, unitVars, exposure, unitRoiVars,
                               testVars, devFlip, held>>

NextList == ListDevices

SpecList == Init /\ [][NextList]_vars

\* C21: when list_devices has returned, no camera is left open, also when
\* the serial number of a camera could not be read.
C21_ListingLeavesNoDeviceOpen ==
    drv.op = "list_devices" => opened = {}

\* ---------------------------------------------------------------------------
\* The exposure time: set_property on the exposure-time control, the
\* set_exposure method, and the exposure recorded with an image.

\* The durations a caller asks for: 100 ms, and a duration that is not a
\* whole number of microseconds.
Durations == {100000000, 100000500}

ExpKeys == {Key("Exposure", "ExposureTime")}

ExpValues == {PValue("Duration", d) : d \in Durations}

\* AsiHandle::set_exposure: refused during an exposure; otherwise the native
\* write of the duration in microseconds, and on its success the store into
\* the cached exposure.
SetExposure(t) ==
    \E d \in Durations, rc \in OneCall(~capturing) :
        LET o == IF capturing THEN Outcome("ExposureInProgress", <<>>)
                 ELSE SetControlValue("Exposure", AsMicros(d), rc)
        IN  /\ Control(t, "set_exposure", Key("Exposure", "ExposureTime"),
                       PValue("Duration", d), NoRoi, o.kind, None, o.natives)
            /\ exposure' = IF o.kind = "Ok" THEN AsMicros(d) ELSE exposure
            /\ UNCHANGED <<captureVars, roiVars, gainVars, info, caps, split,
                           unitVars, drv, opened, unitRoiVars, testVars, devFlip, held>>

\* No exposure is under way and none waits to be downloaded.
BeforeExposure == ~capturing /\ last_exposure = None

\* The exposure time is chosen, then an exposure is started, polled and
\* downloaded.
NextExp ==
    \/ BeforeExposure /\ SetProperty("imager", ExpKeys, ExpValues)
    \/ BeforeExposure /\ SetExposure("imager")
    \/ StartExposure("imager")
    \/ ImageReady("imager")
    \/ DownloadImage("imager")

SpecExp == InitWith({inf \in CaptureInfos : ~inf.MechanicalShutter},
                    {FullList})
            /\ [][NextExp]_vars

\* C22: when set_property on the exposure-time control was the last control
\* call before an exposure, and it asked for the duration d, the image
\* downloaded for that exposure carries EXPOSURE = d.
C22_ExposureMetadataIsWrittenValue ==
    [][(/\ pc["imager"] = "dl_done"
        /\ res'["imager"].kind = "Image"
        /\ ctl.op = "set_property"
        /\ ctl.prop = Key("Exposure", "ExposureTime")
        /\ ctl.value.type = "Duration")
       => res'["imager"].arg[1].EXPOSURE = ctl.value.v]_vars

\* ---------------------------------------------------------------------------
\* The shutter and the frame type: writes to ShutterMode between exposures,
\* for cameras with and without a mechanical shutter.

ShutterKeys == {Key("Sensor", "ShutterMode")}

ShutterValues == {v \in PValues : v.type = "Bool" \/ v = PValue("Int", CtrlMax)}

NextShutter ==
    \/ SetProperty("imager", ShutterKeys, ShutterValues)
    \/ StartExposure("imager")
    \/ DownloadImage("imager")

SpecShutter == InitWith(CaptureInfos, {FullList}) /\ [][NextShutter]_vars

\* The shutter is tracked, and tracked as closed.
ShutterClosed == shutter_open # None /\ ~shutter_open[1]

\* C23: the dark-frame flag handed to ASIStartExposure and the flag stored
\* in last_exposure are true exactly when the shutter is tracked as closed
\* when start_exposure runs (never for a camera without a mechanical
\* shutter), and an image is tagged IMAGETYP = Dark exactly when the flag
\* recorded for its exposure is true.
C23_DarkFrameIffShutterClosed ==
    [][/\ (pc["imager"] = "se_native" /\ pc'["imager"] # "se_native")
            => loc'["imager"].dark = ShutterClosed
       /\ (pc["imager"] = "se_commit" /\ pc'["imager"] = "ready")
            => /\ last_exposure' # None
               /\ last_exposure'[1].darkframe = ShutterClosed
               /\ last_exposure'[1].darkframe = loc["imager"].dark
               /\ ~info.MechanicalShutter => ~last_exposure'[1].darkframe
       /\ (pc["imager"] = "dl_done" /\ res'["imager"].kind = "Image")
            => (res'["imager"].arg[1].IMAGETYP = "Dark"
                    <=> loc["imager"].lexp[1].darkframe)]_vars

\* A camera with a mechanical shutter delivered a light frame: its shutter
\* was opened by a write to ShutterMode before the exposure was started.
C23_Witness ==
    /\ info.MechanicalShutter
    /\ res["imager"].op = "download_image"
    /\ res["imager"].kind = "Image"
    /\ res["imager"].arg[1].IMAGETYP = "Light"

\* C24: as long as no control was written after the handle was opened, the
\* shutter counts as open: an exposure that was started is recorded as a
\* light frame and its image is tagged IMAGETYP = Light, whether or not the
\* camera has a mechanical shutter.
C24_FirstExposureIsLight ==
    ctl.op = "none" =>
        /\ last_exposure # None => ~last_exposure[1].darkframe
        /\ (res["imager"].op = "download_image"
              /\ res["imager"].kind = "Image")
             => res["imager"].arg[1].IMAGETYP = "Light"

\* ---------------------------------------------------------------------------
\* The error mapper: impl From<(u32, Option<T>, Option<T>)> for AsiError, and
\* the ASICALL macro that applies it to the return code of a native call.

\* The ASI_ERROR_CODE constants the mapper names.
KnownErrorCodes ==
    {"ASI_ERROR_INVALID_INDEX", "ASI_ERROR_INVALID_ID",
     "ASI_ERROR_INVALID_CONTROL_TYPE", "ASI_ERROR_CAMERA_CLOSED",
     "ASI_ERROR_CAMERA_REMOVED", "ASI_ERROR_INVALID_PATH",
     "ASI_ERROR_INVALID_FILEFORMAT", "ASI_ERROR_INVALID_SIZE",
     "ASI_ERROR_INVALID_IMGTYPE", "ASI_ERROR_OUTOF_BOUNDARY",
     "ASI_ERROR_TIMEOUT", "ASI_ERROR_INVALID_SEQUENCE",
     "ASI_ERROR_BUFFER_TOO_SMALL", "ASI_ERROR_VIDEO_MODE_ACTIVE",
     "ASI_ERROR_EXPOSURE_IN_PROGRESS", "ASI_ERROR_GENERAL_ERROR",
     "ASI_ERROR_INVALID_MODE"}

\* Every value a native call can return: success, the known error codes, and
\* values that match no constant (ASI_ERROR_END, a negative value cast to
\* u32).
NativeCodes == {"ASI_SUCCESS"} \cup KnownErrorCodes
                  \cup {"ASI_ERROR_END", "UNKNOWN_NEGATIVE"}

\* The variants of AsiError.
AsiErrorVariants ==
    {"InvalidIndex", "InvalidId", "InvalidControlType", "CameraClosed",
     "CameraRemoved", "InvalidPath", "InvalidFileFormat", "InvalidSize",
     "InvalidImage", "OutOfBounds", "Timeout", "InvalidSequence",
     "BufferTooSmall", "VideoModeActive", "ExposureInProgress",
     "GeneralError", "InvalidMode"}

\* The match of the mapper on the code alone.
AsiErrorVariantOf(val) ==
    CASE val = "ASI_ERROR_INVALID_INDEX"        -> "InvalidIndex"
      [] val = "ASI_ERROR_INVALID_ID"           -> "InvalidId"
      [] val = "ASI_ERROR_INVALID_CONTROL_TYPE" -> "InvalidControlType"
      [] val = "ASI_ERROR_CAMERA_CLOSED"        -> "CameraClosed"
      [] val = "ASI_ERROR_CAMERA_REMOVED"       -> "CameraRemoved"
      [] val = "ASI_ERROR_INVALID_PATH"         -> "InvalidPath"
      [] val = "ASI_ERROR_INVALID_FILEFORMAT"   -> "InvalidFileFormat"
      [] val = "ASI_ERROR_INVALID_SIZE"         -> "InvalidSize"
      [] val = "ASI_ERROR_INVALID_IMGTYPE"      -> "InvalidImage"
      [] val = "ASI_ERROR_OUTOF_BOUNDARY"       -> "OutOfBounds"
      [] val = "ASI_ERROR_TIMEOUT"              -> "Timeout"
      [] val = "ASI_ERROR_INVALID_SEQUENCE"     -> "InvalidSequence"
      [] val = "ASI_ERROR_BUFFER_TOO_SMALL"     -> "BufferTooSmall"
      [] val = "ASI_ERROR_VIDEO_MODE_ACTIVE"    -> "VideoModeActive"
      [] val = "ASI_ERROR_EXPOSURE_IN_PROGRESS" -> "ExposureInProgress"
      [] val = "ASI_ERROR_GENERAL_ERROR"        -> "GeneralError"
      [] val = "ASI_ERROR_INVALID_MODE"         -> "InvalidMode"
      [] OTHER                                  -> "GeneralError"

\* A mapper that blames the camera id whenever the failed call was an open.
AsiErrorOf_ByCall(val, src, args) ==
    [variant |-> IF src = Some("ASIOpenCamera") THEN "InvalidId"
                 ELSE AsiErrorVariantOf(val),
     src |-> src, args |-> args]

\* AsiError::from((val, src, args)): the variant chosen by the code, carrying
\* the name of the call and its arguments.
AsiErrorOf(val, src, args) ==
    [variant |-> AsiErrorVariantOf(val), src |-> src, args |-> args]

\* The calls ASICALL is applied to, and their stringified arguments.
CallNames == {"ASIOpenCamera", "ASIGetSerialNumber", "ASIStartExposure"}

CallArgs == {"handle", "handle, &mut sn as _"}

\* ASICALL!(func(args)) when the native call returns `code`: Ok(()) on
\* ASI_SUCCESS, otherwise the mapped error, which carries the arguments only
\* in a build with debug assertions.
AsiCall ==
    \E func \in CallNames, args \in CallArgs, code \in NativeCodes,
       debug \in BOOLEAN :
        LET err == AsiErrorOf(code, Some(func),
                              IF debug THEN Some(args) ELSE None)
        IN  /\ drv' = [op |-> "ASICALL",
                       kind |-> IF code = "ASI_SUCCESS" THEN "Ok"
                                ELSE err.variant,
                       out |-> IF code = "ASI_SUCCESS" THEN <<>>
                               ELSE <<err.src, err.args>>,
                       natives |-> <<Native(func, "none", 0, code)>>]
            /\ UNCHANGED <<captureVars, roiVars, gainVars, info, caps, ctl,
                           split, unitVars, exposure, opened, unitRoiVars,
                           testVars, devFlip, held>>

NextCall == AsiCall

SpecCall == Init /\ [][NextCall]_vars

\* C25: a native call that did not return ASI_SUCCESS yields exactly one
\* variant of AsiError; a code that is none of the known constants yields
\* GeneralError; and the variant is the one the same code yields for every
\* other call name and argument text.
C25_ErrorMapperPureAndTotal ==
    (drv.op = "ASICALL" /\ drv.natives[1].rc # "ASI_SUCCESS") =>
        /\ drv.kind \in AsiErrorVariants
        /\ drv.natives[1].rc \notin KnownErrorCodes
             => drv.kind = "GeneralError"
        /\ \A func \in CallNames, args \in {None} \cup {Some(a) : a \in CallArgs} :
             AsiErrorOf(drv.natives[1].rc, Some(func), args).variant = drv.kind

\* A failed call whose code matches no constant was mapped to GeneralError,
\* with the name of the call attached.
C25_Witness ==
    /\ drv.op = "ASICALL"
    /\ drv.natives[1].rc = "ASI_ERROR_END"
    /\ drv.kind = "GeneralError"
    /\ drv.out[1] = Some("ASIGetSerialNumber")

\* ---------------------------------------------------------------------------
\* Enumerating the capabilities: get_control_caps.

\* Bound on the number of controls ASIGetNumOfControls reports.
MaxControls == 3

\* An enumeration in which every failure of a record ends the enumeration.
RecordFails_Any(variant) == TRUE

\* The match on the error of ASIGetControlCaps: CameraClosed and InvalidId
\* end the enumeration, every other error skips the record.
RecordFails(variant) == variant \in {"CameraClosed", "InvalidId"}

\* The map_err closure after ASIGetNumOfControls.
CountErrorOf(code) ==
    CASE AsiErrorVariantOf(code) = "CameraClosed" -> "CameraClosed"
      [] AsiErrorVariantOf(code) = "InvalidId"    -> "InvalidId"
      [] OTHER                                    -> "GeneralError"

\* The loop over the records i..(n - 1), where codes[i] is what
\* ASIGetControlCaps returns for record i.
RECURSIVE ControlCapsLoop(_, _, _, _)
ControlCapsLoop(i, n, codes, acc) ==
    IF i >= n THEN [acc EXCEPT !.kind = "Ok"]
    ELSE LET c    == Native("ASIGetControlCaps", "none", i, codes[i])
             logd == [acc EXCEPT !.natives = @ \o <<c>>]
         IN  IF codes[i] = "ASI_SUCCESS"
             THEN ControlCapsLoop(i + 1, n, codes,
                                  [logd EXCEPT !.out = Append(@, i)])
             ELSE IF RecordFails(AsiErrorVariantOf(codes[i]))
             THEN [logd EXCEPT !.kind = AsiErrorVariantOf(codes[i]),
                               !.out = <<>>]
             ELSE ControlCapsLoop(i + 1, n, codes, logd)

\* get_control_caps(handle).
GetControlCaps ==
    \E rc \in RetCodes :
    \E n \in (IF rc = "ASI_SUCCESS" THEN 0..MaxControls ELSE {0}) :
    \E codes \in [0..(n - 1) -> RetCodes] :
        LET count == Native("ASIGetNumOfControls", "none", n, rc)
            r == IF rc # "ASI_SUCCESS"
                 THEN [kind |-> CountErrorOf(rc), out |-> <<>>,
                       natives |-> <<count>>]
                 ELSE ControlCapsLoop(0, n, codes,
                        [kind |-> "Ok", out |-> <<>>, natives |-> <<count>>])
        IN  /\ drv' = [op |-> "get_control_caps", kind |-> r.kind,
                       out |-> r.out, natives |-> r.natives]
            /\ UNCHANGED <<captureVars, roiVars, gainVars, info, caps, ctl,
                           split, unitVars, exposure, opened, unitRoiVars,
                           testVars, devFlip, held>>

NextCaps == GetControlCaps

SpecCaps == Init /\ [][NextCaps]_vars

\* The ASIGetControlCaps calls of the last enumeration, and those that
\* signalled CameraClosed or InvalidId.
RecordCalls == SelectSeq(drv.natives, LAMBDA c : c.name = "ASIGetControlCaps")

FatalCodes == {"ASI_ERROR_CAMERA_CLOSED", "ASI_ERROR_INVALID_ID"}

FatalRecord == \E k \in 1..Len(RecordCalls) : RecordCalls[k].rc \in FatalCodes

\* C26 as stated: the enumeration fails only if the count call or a record
\* call signalled CameraClosed or InvalidId; otherwise every record whose
\* call succeeded is returned.
C26_EnumerationFailsOnlyOnClosedOrInvalid ==
    drv.op = "get_control_caps" =>
        /\ drv.kind # "Ok" => (drv.natives[1].rc \in FatalCodes \/ FatalRecord)
        /\ drv.kind = "Ok" =>
             /\ Len(RecordCalls) = drv.natives[1].val
             /\ drv.out = SelectSeq([k \in 1..Len(RecordCalls) |-> k - 1],
                            LAMBDA i : RecordCalls[i + 1].rc = "ASI_SUCCESS")

\* C26, amended: the enumeration fails exactly when the count call failed
\* with any code (CameraClosed and InvalidId are kept, every other code
\* becomes GeneralError) or a record call signalled CameraClosed or
\* InvalidId; any other failure of a record skips that record, and every
\* record whose call succeeded is returned, in order.
C26_EnumerationFailsOnCountOrFatalRecord ==
    drv.op = "get_control_caps" =>
        /\ drv.kind # "Ok" <=>
             (drv.natives[1].rc # "ASI_SUCCESS" \/ FatalRecord)
        /\ drv.natives[1].rc # "ASI_SUCCESS" =>
             /\ drv.kind = IF drv.natives[1].rc \in FatalCodes
                           THEN AsiErrorVariantOf(drv.natives[1].rc)
                           ELSE "GeneralError"
             /\ RecordCalls = <<>>
        /\ (drv.kind # "Ok" /\ drv.natives[1].rc = "ASI_SUCCESS") =>
             drv.kind \in {"CameraClosed", "InvalidId"}
        /\ drv.kind = "Ok" =>
             /\ Len(RecordCalls) = drv.natives[1].val
             /\ drv.out = SelectSeq([k \in 1..Len(RecordCalls) |-> k - 1],
                            LAMBDA i : RecordCalls[i + 1].rc = "ASI_SUCCESS")

\* An enumeration of three records returned the first and the last: the
\* call for the one in between timed out and the record was skipped.
C26_Witness ==
    /\ drv.op = "get_control_caps"
    /\ drv.kind = "Ok"
    /\ drv.out = <<0, 2>>
    /\ RecordCalls[2].rc = "ASI_ERROR_TIMEOUT"

\* ---------------------------------------------------------------------------
\* Building the catalog: the records get_control_caps returned, filtered
\* through map_control_cap and collected into the map (AsiHandle::new,
\* get_caps), for every capability list a device can report.  The catalog
\* is built once, when the handle is created.
BuildCatalog ==
    \E list \in CapLists :
        /\ drv.op = "none"
        /\ drv' = [op |-> "get_caps", kind |-> "Ok",
                   out |-> <<GetCaps(info, list)>>, natives |-> <<list>>]
        /\ UNCHANGED <<captureVars, roiVars, gainVars, info, caps, ctl,
                       split, unitVars, exposure, opened, unitRoiVars,
                       testVars, devFlip, held>>

NextCatalog == BuildCatalog

SpecCatalog == Init /\ [][NextCatalog]_vars

\* C27: every recognised control type the device reported is found in the
\* catalog under its own generic id, with its own native tag, and no two
\* reported control types are filed under the same id; a type that is not
\* recognised adds no entry.
C27_CatalogKeysOneToOne ==
    drv.op = "get_caps" =>
        LET reported == drv.natives[1].present
            catalog  == drv.out[1]
        IN  /\ \A ty \in reported \ {"Other"} :
                 /\ KeyOf(ty) \in DOMAIN catalog
                 /\ catalog[KeyOf(ty)].tag = ty
            /\ \A t1, t2 \in reported \ {"Other"} :
                 KeyOf(t1) = KeyOf(t2) => t1 = t2
            /\ DOMAIN catalog =
                 {KeyOf(ty) : ty \in reported \ {"Other"}}
                    \cup {e[1] : e \in ExtraCaps(info)}

\* ---------------------------------------------------------------------------
\* tests::test_write_image (lib.rs): start_exposure, the loop on image_ready,
\* download_image, each result unwrapped.  The device holds an exposure
\* status: a start that the SDK accepted makes it Working, and a working
\* exposure completes or fails on its own.

\* What ASIGetExpStatus stores: the status of the device when the call
\* succeeds, anything otherwise.
StatusRead(rcq) == IF rcq = "ASI_SUCCESS" THEN {cuStatus} ELSE RawStatuses

\* lib.rs 40-42: start_exposure().unwrap().
TestStart ==
    /\ testPc = "start"
    /\ \E rcq \in RetCodes, rc \in RetCodes :
       \E raw \in StatusRead(rcq) :
         /\ CuStartExposureWith(rcq, raw, rc)
         /\ cuStatus' = IF Len(cuRes'.natives) = 2 /\ rc = "ASI_SUCCESS"
                        THEN "ASI_EXP_WORKING" ELSE cuStatus
    /\ testPc' = IF cuRes'.kind = "Ok" THEN "poll" ELSE "panicked"

\* lib.rs 44-52: one turn of `while !cam.image_ready().unwrap()`.
TestPoll ==
    /\ testPc = "poll"
    /\ \E rcq \in RetCodes :
       \E raw \in StatusRead(rcq) : CuImageReadyWith(rcq, raw)
    /\ testPc' = CASE cuRes'.kind = "false" -> "poll"
                   [] cuRes'.kind = "true"  -> "download"
                   [] OTHER                 -> "panicked"
    /\ UNCHANGED cuStatus

\* lib.rs 53-56: download_image().unwrap().
TestDownload ==
    /\ testPc = "download"
    /\ \E rcq \in RetCodes, rcf \in RetCodes, fmt \in UnitFormats,
          rcd \in RetCodes :
       \E raw \in StatusRead(rcq) :
         CuDownloadImageWith(rcq, raw, rcf, fmt, rcd)
    /\ testPc' = IF cuRes'.kind = "Image" THEN "done" ELSE "panicked"
    /\ UNCHANGED cuStatus

\* The device: the exposure under way completes, or fails.
ExposureEnds ==
    /\ cuStatus = "ASI_EXP_WORKING"
    /\ cuStatus' \in {"ASI_EXP_SUCCESS", "ASI_EXP_FAILED"}
    /\ UNCHANGED <<captureVars, roiVars, gainVars, info, caps, ctl, split,
                   unitVars, driverVars, unitRoiVars, testPc, devFlip, held>>

NextTest == TestStart \/ TestPoll \/ TestDownload \/ ExposureEnds

\* A poll whose status query succeeded, so that it saw the status of the
\* device.
TestPollRead == TestPoll /\ cuRes'.natives[1].rc = "ASI_SUCCESS"

\* The test from the point where the camera is open: the test thread is
\* scheduled, the status query does not fail for ever, and an exposure does
\* not stay Working for ever.
SpecTest ==
    /\ Init
    /\ [][NextTest]_vars
    /\ WF_vars(TestPollRead) /\ WF_vars(TestDownload) /\ WF_vars(ExposureEnds)

\* The native calls of the last CameraUnitASI call, by name.
UnitCalls(name) == SelectSeq(cuRes'.natives, LAMBDA c : c.name = name)

\* A poll of the test, and its download, as steps.
PollStep == testPc = "poll" /\ cuRes'.op = "image_ready" /\ cuRes' # cuRes

DownloadStep == testPc = "download" /\ testPc' # "download"

\* C28 as stated: every poll that finds the status Working returns
\* Ok(false), the poll that finds Success returns Ok(true), the loop ends,
\* and the download that follows returns an image.
C28_PollLoopThenImage ==
    /\ [][/\ (PollStep /\ cuRes'.stat = "Working") => cuRes'.kind = "false"
          /\ (PollStep /\ cuRes'.stat = "Success") => cuRes'.kind = "true"
          /\ (DownloadStep /\ cuRes'.stat = "Success")
                => cuRes'.kind = "Image"]_vars
    /\ (testPc = "poll") ~> (testPc \in {"download", "panicked"})

\* C28, amended: as above, and the download that finds the status Success
\* returns an image provided ASIGetROIFormat does not signal InvalidId or
\* CameraClosed and reports a format the wrapper knows, and
\* ASIGetDataAfterExp signals none of InvalidId, CameraClosed and Timeout;
\* otherwise it returns the corresponding error.
C28_PollLoopThenImageIfTransferSucceeds ==
    /\ [][/\ (PollStep /\ cuRes'.stat = "Working") => cuRes'.kind = "false"
          /\ (PollStep /\ cuRes'.stat = "Success") => cuRes'.kind = "true"
          /\ (DownloadStep /\ cuRes'.stat = "Success") =>
                LET f == UnitCalls("ASIGetROIFormat")
                    d == UnitCalls("ASIGetDataAfterExp")
                IN  cuRes'.kind = "Image" <=>
                        /\ f[1].rc \notin FatalCodes
                        /\ f[1].tag \in {"RAW8", "RGB24", "RAW16"}
                        /\ d # <<>>
                        /\ d[1].rc \notin FatalCodes \cup {"ASI_ERROR_TIMEOUT"}]_vars
    /\ (testPc = "poll") ~> (testPc \in {"download", "panicked"})

\* The test went through: the loop polled, and the download returned an
\* image.
C28_Witness ==
    /\ testPc = "done"
    /\ cuRes.op = "download_image"
    /\ cuRes.kind = "Image"
    /\ ~cuCapturing

\* C29: when the last control call before an exposure was a successful write
\* of the value v to the device gain, made while idle, the snapshot that
\* start_exposure takes records the gain v (unless the gain could not be
\* read at all).
C29_SnapshotGainIsLastWritten ==
    [][(/\ pc["imager"] = "se_snapshot"
        /\ pc'["imager"] = "se_instant"
        /\ ctl.op = "set_property"
        /\ ctl.prop = Key("Analog", "Gain")
        /\ ctl.kind = "Ok"
        /\ ~ctl.pre
        /\ ctl.natives = <<Native("ASISetControlValue", "Gain", ctl.value.v,
                                  "ASI_SUCCESS")>>
        /\ loc'["imager"].lexp[1].gain # None)
       => loc'["imager"].lexp[1].gain = Some(ctl.value.v)]_vars

\* ---------------------------------------------------------------------------
\* CameraUnitASI::set_roi.

\* A ROI of the unit: a start position and a size (width, height and binning
\* taken together), after the clipping and rounding of lines 1372-1382.
UnitRois == [pos : Positions, size : UnitSizes]

\* The return codes drawn for the native ROI calls of the unit.
UnitRoiCodes == {"ASI_SUCCESS", "ASI_ERROR_INVALID_ID",
                 "ASI_ERROR_OUTOF_BOUNDARY", "ASI_ERROR_GENERAL_ERROR"}

\* set_start_pos: the errors it tells apart; every other code is Ok.
StartPosErrorOf(code) ==
    IF code = "ASI_ERROR_OUTOF_BOUNDARY" THEN "OutOfBounds"
    ELSE UnitErrorOf(code)

\* What set_roi leaves behind: the result, the ROI of the unit and of the
\* device, and the native calls made.
UnitRoiReturn(r, kind, natives, unit, dev) ==
    /\ cuRes' = [op |-> "set_roi", who |-> "unit", kind |-> kind,
                 pre |-> cuCapturing, stat |-> "None", natives |-> natives,
                 req |-> r]
    /\ cuRoi' = unit
    /\ cuDevRoi' = dev
    /\ UNCHANGED <<captureVars, roiVars, gainVars, info, caps, ctl, split,
                   cuCapturing, driverVars, testVars, devFlip, held>>

\* The codes of a native call that is reached only if `used` holds.  The
\* calls other than ASISetStartPos are drawn a success and a failure the
\* wrapper reports.
UnitCall(used, codes) == IF used THEN codes ELSE {"ASI_SUCCESS"}

ReportedCodes == {"ASI_SUCCESS", "ASI_ERROR_INVALID_ID"}

\* A u32 as its two 16-bit halves: the value is hi * 2^16 + lo.
Half == 2^16

Word(n) == [hi |-> n \div Half, lo |-> n % Half]

\* a - b in u32 without overflow checks, for a and b below 2^16: a
\* difference below zero wraps to 2^32 - (b - a).
WrappingSub(a, b) ==
    IF a >= b THEN Word(a - b)
    ELSE [hi |-> Half - 1, lo |-> Half - (b - a)]

\* v / n in u32, for n in 1..2^15.
WordDiv(v, n) ==
    [hi |-> v.hi \div n, lo |-> ((v.hi % n) * Half + v.lo) \div n]

\* v -= v % m, for m a divisor of 2^16.
WordRound(v, m) == [v EXCEPT !.lo = v.lo - (v.lo % m)]

\* v > n, for n below 2^16.
WordGt(v, n) == v.hi > 0 \/ v.lo > n

\* The ROIs requested of set_roi: positions inside and beyond the sensor,
\* sizes that fit, that need clipping and that need rounding, the supported
\* binnings, and binnings that are refused.
RoiRequests ==
    {UnitRoi(x, v[1], w, v[2], b, b) :
        x \in {0, MaxWidth \div 2, MaxWidth + 8}, w \in {12, MaxWidth},
        v \in {<<0, MaxHeight>>, <<MaxHeight \div 2, 3>>},
        b \in SupportedBins}
    \cup {UnitRoi(0, 0, MaxWidth, MaxHeight, 1, 2),
          UnitRoi(0, 0, MaxWidth, MaxHeight, 0, 0),
          UnitRoi(0, 0, 8, 2, 3, 3)}

\* Lines 1372-1377 clip the size of the request q.
ClipsWidth(q) == q.width + q.x_min > MaxWidth \div q.bin_x
ClipsHeight(q) == q.height + q.y_min > MaxHeight \div q.bin_x

\* The subtraction of line 1373 or 1376 goes below zero.
Underflows(q) ==
    /\ q.bin_x = q.bin_y
    /\ q.bin_x \in SupportedBins
    /\ \/ ClipsWidth(q) /\ q.x_min > MaxWidth
       \/ ClipsHeight(q) /\ q.y_min > MaxHeight

\* Lines 1349-1388 of set_roi: the checks on the binning, the clipping to
\* the sensor, the rounding of the width to a multiple of 8 and of the
\* height to a multiple of 2, and the check of the size against the sensor
\* divided by the binning the unit has stored.  `checked` is a build with
\* overflow checks, in which a subtraction that goes below zero panics.
SetRoiChecks(q, stored, checked) ==
    LET w1 == IF ClipsWidth(q)
              THEN WordDiv(WrappingSub(MaxWidth, q.x_min), q.bin_x)
              ELSE Word(q.width)
        h1 == IF ClipsHeight(q)
              THEN WordDiv(WrappingSub(MaxHeight, q.y_min), q.bin_x)
              ELSE Word(q.height)
        w2 == WordRound(w1, 8)
        h2 == WordRound(h1, 2)
    IN  IF q.bin_x # q.bin_y \/ q.bin_x < 1 \/ q.bin_x \notin SupportedBins
        THEN [kind |-> "InvalidValue", roi |-> q]
        ELSE IF Underflows(q) /\ checked
        THEN [kind |-> "Panic", roi |-> q]
        ELSE IF \/ WordGt(w2, MaxWidth \div stored.bin_x)
                \/ WordGt(h2, MaxHeight \div stored.bin_y)
        THEN [kind |-> "InvalidValue", roi |-> q]
        ELSE [kind |-> "Ok",
              roi |-> UnitRoi(q.x_min, q.y_min, w2.lo, h2.lo, q.bin_x,
                              q.bin_x)]

\* The start position and the ROI format of a ROI, as the native ROI calls
\* tell them apart.
UnitRoiOf(g) ==
    [pos |-> IF g.x_min = 0 /\ g.y_min = 0 THEN "p0" ELSE "p1",
     size |-> IF /\ g.bin_x = 1
                 /\ g.width = MaxWidth - (MaxWidth % 8)
                 /\ g.height = MaxHeight - (MaxHeight % 2)
              THEN "full" ELSE "half"]

\* CameraUnitASI::set_roi for a request q.  The request is checked, clipped
\* and rounded; the unit of the model is a USB3 camera, which the check of
\* lines 1390-1397 passes.  The format is written first; when the start
\* position is refused the old format is written back, and in either case
\* the request is stored and Ok returned.
CuSetRoi ==
    \E q \in RoiRequests :
    \E checked \in IF Underflows(q) THEN BOOLEAN ELSE {FALSE} :
    LET checks == SetRoiChecks(q, cuGeom, checked)
        r == UnitRoiOf(checks.roi)
        valid == checks.kind = "Ok"
    IN
    /\ \E rcGetF \in UnitCall(valid /\ ~cuCapturing,
                              ReportedCodes) :
        \E rcGetP \in UnitCall(valid /\ ~cuCapturing
                                 /\ UnitErrorOf(rcGetF) = "Ok",
                              ReportedCodes) :
        \E rcFmt \in UnitCall(valid /\ ~cuCapturing
                                /\ UnitErrorOf(rcGetF) = "Ok"
                                /\ UnitErrorOf(rcGetP) = "Ok",
                              ReportedCodes) :
        \E rcPos \in UnitCall(valid /\ ~cuCapturing
                                /\ UnitErrorOf(rcGetF) = "Ok"
                                /\ UnitErrorOf(rcGetP) = "Ok"
                                /\ UnitErrorOf(rcFmt) = "Ok",
                              UnitRoiCodes) :
        \E rcBack \in UnitCall(valid /\ ~cuCapturing
                                 /\ UnitErrorOf(rcGetF) = "Ok"
                                 /\ UnitErrorOf(rcGetP) = "Ok"
                                 /\ UnitErrorOf(rcFmt) = "Ok"
                                 /\ StartPosErrorOf(rcPos) # "Ok",
                              ReportedCodes) :
            LET getF == <<Native("ASIGetROIFormat", "none", 0, rcGetF)>>
                getP == <<Native("ASIGetStartPos", "none", 0, rcGetP)>>
                fmt  == <<Native("ASISetROIFormat", r.size, 0, rcFmt)>>
                pos  == <<Native("ASISetStartPos", r.pos, 0, rcPos)>>
                back == <<Native("ASISetROIFormat", cuDevRoi.size, 0, rcBack)>>
                dev1 == IF rcFmt = "ASI_SUCCESS"
                        THEN [cuDevRoi EXCEPT !.size = r.size] ELSE cuDevRoi
                dev2 == IF rcPos = "ASI_SUCCESS"
                        THEN [dev1 EXCEPT !.pos = r.pos] ELSE dev1
                dev3 == IF rcBack = "ASI_SUCCESS"
                        THEN [dev2 EXCEPT !.size = cuDevRoi.size] ELSE dev2
            IN  IF ~valid
                THEN UnitRoiReturn(r, checks.kind, <<>>, cuRoi, cuDevRoi)
                ELSE IF cuCapturing
                THEN UnitRoiReturn(r, "ExposureInProgress", <<>>, cuRoi, cuDevRoi)
                ELSE IF UnitErrorOf(rcGetF) # "Ok"
                THEN UnitRoiReturn(r, UnitErrorOf(rcGetF), getF, cuRoi, cuDevRoi)
                ELSE IF UnitErrorOf(rcGetP) # "Ok"
                THEN UnitRoiReturn(r, UnitErrorOf(rcGetP), getF \o getP, cuRoi,
                                   cuDevRoi)
                ELSE IF UnitErrorOf(rcFmt) # "Ok"
                THEN UnitRoiReturn(r, UnitErrorOf(rcFmt), getF \o getP \o fmt,
                                   cuRoi, dev1)
                ELSE IF StartPosErrorOf(rcPos) = "Ok"
                THEN UnitRoiReturn(r, "Ok", getF \o getP \o fmt \o pos, r, dev2)
                ELSE IF UnitErrorOf(rcBack) # "Ok"
                THEN UnitRoiReturn(r, UnitErrorOf(rcBack),
                                   getF \o getP \o fmt \o pos \o back, cuRoi,
                                   dev3)
                ELSE UnitRoiReturn(r, "Ok", getF \o getP \o fmt \o pos \o back,
                                   r, dev3)
    /\ cuGeom' = IF cuRes'.kind = "Ok" THEN checks.roi ELSE cuGeom

NextUnitRoi == CuSetRoi

SpecUnitRoi == Init /\ [][NextUnitRoi]_vars

\* The ASISetStartPos call of the last set_roi, if it made one.
StartPosCalls == SelectSeq(cuRes.natives, LAMBDA c : c.name = "ASISetStartPos")

\* C30: a set_roi whose native start-position call failed returns an error,
\* and a set_roi that returned Ok has stored the requested ROI only if the
\* device holds it.
C30_SetRoiReportsNativeFailure ==
    cuRes.op = "set_roi" =>
        /\ (StartPosCalls # <<>> /\ StartPosCalls[1].rc # "ASI_SUCCESS")
             => cuRes.kind # "Ok"
        /\ (cuRes.kind = "Ok" /\ cuRoi = cuRes.req) => cuDevRoi = cuRes.req

\* C31: an operation that finds the start instant held by another operation
\* does not wait: whenever start_exposure is about to take the write guard
\* while a reader holds the lock, its next step is available and returns
\* AccessViolation.
C31_ContendedStartReturnsAccessViolation ==
    \A t \in Threads :
        (pc[t] = "se_instant" /\ startReaders # {}) =>
            ENABLED (StartExposure(t) /\ res'[t].kind = "AccessViolation")


----------------------------------------------------------------------------
\* ReverseX and ReverseY: the two booleans of the native flip control.

FlipKeys == {Key("Sensor", "ReverseX"), Key("Sensor", "ReverseY")}

FlipValues == {PValue("Bool", 0), PValue("Bool", 1), PValue("Int", CtrlMax)}

NextFlip ==
    \/ SetProperty("imager", FlipKeys, FlipValues)
    \/ GetProperty("imager", FlipKeys)

SpecFlip == InitWith(CaptureInfos, {FullList}) /\ [][NextFlip]_vars

\* The boolean of the flip status n that the key names.
FlipBit(prop, n) ==
    IF prop = Key("Sensor", "ReverseX") THEN FlipBools(n)[1][1]
    ELSE FlipBools(n)[1][2]

\* The key of the other boolean.
OtherFlip(prop) ==
    IF prop = Key("Sensor", "ReverseX") THEN Key("Sensor", "ReverseY")
    ELSE Key("Sensor", "ReverseX")

\* A set_property of a flip key that returned Ok.
FlipWritten(c) ==
    c.op = "set_property" /\ c.prop \in FlipKeys /\ c.kind = "Ok"

\* C32: a write of ReverseX (ReverseY) to b that succeeds leaves the other
\* boolean of the flip status as it was, and a get_property of the same key
\* that follows it and succeeds returns the boolean b.
C32_FlipBooleansIndependent ==
    [][/\ FlipWritten(ctl') =>
             FlipBit(OtherFlip(ctl'.prop), devFlip')
                 = FlipBit(OtherFlip(ctl'.prop), devFlip)
       /\ (/\ FlipWritten(ctl)
           /\ ctl'.op = "get_property" /\ ctl'.prop = ctl.prop
           /\ ctl'.kind = "Ok") =>
             ctl'.out = Some(ctl.value)]_vars

----------------------------------------------------------------------------
\* CameraUnitASI::download_image: the flag after the data pull.

\* The last call was a download_image that issued ASIGetDataAfterExp.
PullIssued ==
    /\ cuRes.op = "download_image"
    /\ Len(cuRes.natives) = 3
    /\ cuRes.natives[3].name = "ASIGetDataAfterExp"

\* C33: when download_image saw the status Success and issued the data
\* pull, the capturing flag is false once it has returned, whether the pull
\* succeeded or failed.
C33_FlagClearAfterDataPull == PullIssued => ~cuCapturing

----------------------------------------------------------------------------
\* start_exposure on a handle some of whose cells are held.

\* start_exposure with every way it returns.
StartExposureAny(t) ==
    \/ StartExposure(t)
    \/ SeDenied(t) /\ UNCHANGED gainVars /\ UNCHANGED ctlVars

NextHeld == StartExposureAny("imager")

SpecHeld ==
    /\ InitCells(CaptureInfos, {FullList})
    /\ held \in SUBSET Cells
    /\ [][NextHeld]_vars

----------------------------------------------------------------------------
\* start_exposure racing with cancel_capture.

\* The imager's start_exposure and the other handle's call have returned;
\* the native start was issued after a native stop that cut into the call,
\* and succeeded.
StartedAfterStop ==
    /\ pc["imager"] = "ready" /\ pc["info"] = "ready"
    /\ res["imager"].op = "start_exposure" /\ res["imager"].kind = "Ok"
    /\ loc["imager"].afterStop

\* C35: once start_exposure and a cancel_capture that ran alongside it have
\* both returned, it is not the case that the native start was issued after
\* the native stop and the capturing flag is false.
C35_NoStartAfterStopWithFlagClear == ~(StartedAfterStop /\ ~capturing)

----------------------------------------------------------------------------
\* GenCamAsi::capture (asicamera2.rs 144-152): get_exposure, start_exposure,
\* the loop on image_ready, download_image, each `?` ending the call.

\* AsiHandle::get_exposure: one native read of the exposure control; the
\* device holds the exposure the handle has cached.
GetExposure(t) ==
    /\ pc[t] = "ready"
    /\ \E rc \in RetCodes :
         /\ loc' = [loc EXCEPT ![t] = [InitLoc EXCEPT
                       !.op = "get_exposure", !.pre = capturing, !.rc = rc]]
         /\ Return(t, loc'[t], IF rc = "ASI_SUCCESS" THEN "Ok"
                               ELSE GenCamErrorOf(rc), None)
    /\ calls' = [calls EXCEPT ![t] = <<"ASIGetControlValue">>]
    /\ UNCHANGED <<capturing, start, startReaders, last_exposure,
                   shutter_open, epoch, capEpoch, gainVars>>
    /\ UNCHANGED ctlVars

\* The last call of capture has returned, and with it capture: a failed
\* get_exposure, start_exposure or image_ready, or the download.
CaptureReturned(t) ==
    /\ pc[t] = "ready"
    /\ \/ res[t].op = "none"
       \/ res[t].op \in {"get_exposure", "start_exposure"}
             /\ res[t].kind # "Ok"
       \/ res[t].op = "image_ready" /\ res[t].kind \notin {"true", "false"}
       \/ res[t].op = "download_image"

\* The call that capture makes next, when the one before has returned.  No
\* capture begins once MaxEpoch exposures were started, unless its
\* start_exposure is going to be refused.
CaptureCalls(t, op) ==
    pc[t] = "ready" =>
        CASE op = "get_exposure" ->
                CaptureReturned(t) /\ (capturing \/ epoch < MaxEpoch)
          [] op = "start_exposure" ->
                res[t].op = "get_exposure" /\ res[t].kind = "Ok"
          [] op = "image_ready" ->
                \/ res[t].op = "start_exposure" /\ res[t].kind = "Ok"
                \/ res[t].op = "image_ready" /\ res[t].kind = "false"
          [] op = "download_image" ->
                res[t].op = "image_ready" /\ res[t].kind = "true"

Capture(t) ==
    \/ CaptureCalls(t, "get_exposure") /\ GetExposure(t)
    \/ CaptureCalls(t, "start_exposure") /\ StartExposure(t)
    \/ CaptureCalls(t, "image_ready") /\ ImageReady(t)
    \/ CaptureCalls(t, "download_image") /\ DownloadImage(t)

\* capture after capture, on the thread that owns the camera.
NextCapture == Capture("imager")

\* The thread that runs capture is scheduled as long as it has a step.
SpecCapture == Init /\ [][NextCapture]_vars /\ WF_vars(Capture("imager"))

\* The status image_ready last read is not Working.
NotWorking == loc["imager"].stat # "Working"

\* C36: in every run in which the native status stops being Working, every
\* capture returns.
C36_CaptureTerminates ==
    (<>[]NotWorking) => []<>CaptureReturned("imager")

----------------------------------------------------------------------------
\* set_property on the controls of the catalog.

\* The controls asked for: one of each arm of set_property that keeps no
\* state of its own, the exposure time and the cooler switch among them.
SettableKeys == {Key("Exposure", "ExposureTime"), Key("Device", "CoolerEnable"),
                 Key("Analog", "Gamma"), Key("Device", "HighSpeedMode"),
                 Key("Device", "CoolerTemp"), Key("Device", "UUID"),
                 Key("Sensor", "ShutterMode")}

\* The values of the request: one of each variant, within the limits of the
\* control it is meant for, and an integer beyond them.
SettableValues ==
    {PValue("Duration", FromMicros(CtrlMax)), PValue("Bool", 1),
     PValue("Int", CtrlMax), PValue("Int", CtrlMax + 1), PValue("EnumStr", 0)}

NextProps == SetProperty("imager", SettableKeys, SettableValues)

SpecProps == InitWith(Infos, {FullList}) /\ [][NextProps]_vars

\* The last call was a set_property, made while no exposure was under way,
\* of a control the catalog holds, with a value its descriptor accepts.
\* Every descriptor of the catalog is writable: the model's capability
\* records have IsWritable set, and the entries added by hand are created
\* with rdonly = false.
WritableSet ==
    /\ ctl.op = "set_property"
    /\ ~ctl.pre
    /\ ctl.prop \in DOMAIN caps
    /\ Validate(caps[ctl.prop].lims, ctl.value)

\* C37: set_property of a writable control of the catalog, with a value in
\* range and no exposure under way, does not return PropertyError NotFound.
C37_WritableControlsAreSettable == WritableSet => ctl.kind # "NotFound"

----------------------------------------------------------------------------
\* AsiHandle::new(handle)

\* The native calls new makes up to the point where the handle exists: open,
\* get_info, get_control_caps (the count and one record), init, AsiRoi::get
\* (start position and ROI format), get_sn, and get_exposure on the handle
\* just built.
NewCalls ==
    <<"ASIOpenCamera", "ASIGetCameraPropertyByID", "ASIGetNumOfControls",
      "ASIGetControlCaps", "ASIInitCamera", "ASIGetStartPos",
      "ASIGetROIFormat", "ASIGetSerialNumber", "ASIGetControlValue">>

\* The codes of a run of new in which call k returns rc and every other call
\* succeeds; k = 0 is the run in which every call succeeds.
NewCode(i, k, rc) == IF i = k THEN rc ELSE "ASI_SUCCESS"

\* Call i ends new: it failed, and it is not a record of the enumeration
\* whose failure get_control_caps skips.
NewEnds(i, k, rc) ==
    /\ NewCode(i, k, rc) # "ASI_SUCCESS"
    /\ NewCalls[i] = "ASIGetControlCaps" =>
           RecordFails(AsiErrorVariantOf(NewCode(i, k, rc)))

\* The index of the call that ended new, 0 when none did.
NewStop(k, rc) ==
    IF \E i \in 1..Len(NewCalls) : NewEnds(i, k, rc)
    THEN CHOOSE i \in 1..Len(NewCalls) :
            /\ NewEnds(i, k, rc)
            /\ \A j \in 1..(i - 1) : ~NewEnds(j, k, rc)
    ELSE 0

\* new(id): every step but the last leaves with `?` as soon as its call
\* failed; the last, get_exposure, is called on the handle that was built,
\* so that its failure drops the handle, and Drop stops the exposure,
\* switches the cooler off and closes the camera.
New(id) ==
    /\ id \notin opened
    /\ \E k \in 0..Len(NewCalls), rc \in CtlCodes \ {"ASI_SUCCESS"} :
       \E rcStop \in OneCall(NewStop(k, rc) = Len(NewCalls)),
          rcCooler \in OneCall(NewStop(k, rc) = Len(NewCalls)
                                 /\ info.IsCoolerCam),
          rcClose \in OneCall(NewStop(k, rc) = Len(NewCalls)) :
         LET stop == NewStop(k, rc)
             last == IF stop = 0 THEN Len(NewCalls) ELSE stop
             made == [i \in 1..last |->
                        Native(NewCalls[i], "none", id, NewCode(i, k, rc))]
             drop == IF stop = Len(NewCalls)
                     THEN DropCalls(info.IsCoolerCam, rcStop, rcCooler,
                                    rcClose)
                     ELSE <<>>
             closed == \E j \in 1..Len(drop) :
                          /\ drop[j].name = "ASICloseCamera"
                          /\ drop[j].rc = "ASI_SUCCESS"
         IN  /\ (k = 0 => rc = "ASI_ERROR_INVALID_ID")
             /\ drv' = [op |-> "new",
                        kind |-> IF stop = 0 THEN "Ok" ELSE GenCamErrorOf(rc),
                        out |-> IF stop = 0 THEN <<id>> ELSE <<>>,
                        natives |-> made \o drop]
             /\ opened' = IF stop = 1 \/ closed THEN opened
                          ELSE opened \cup {id}
    /\ UNCHANGED <<captureVars, roiVars, gainVars, info, caps, ctl, split,
                   unitVars, exposure, unitRoiVars, testVars, devFlip, held>>

\* The cameras a handle is opened for.
CameraIds == 0..(MaxCameras - 1)

NextNew == \E id \in CameraIds : New(id)

SpecNew == InitWith(Infos, {FullList}) /\ [][NextNew]_vars

\* The last call was a new that returned an error after ASIOpenCamera had
\* succeeded.
NewFailedAfterOpen ==
    /\ drv.op = "new"
    /\ drv.kind # "Ok"
    /\ drv.natives[1].rc = "ASI_SUCCESS"

\* C38: when new fails at a step after the native open succeeded, the
\* camera is closed (ASICloseCamera is called) before the error is returned.
C38_FailedOpenClosesCamera ==
    NewFailedAfterOpen =>
        \E j \in 1..Len(drv.natives) : drv.natives[j].name = "ASICloseCamera"


\* ---------------------------------------------------------------------------
\* The ROI that CameraUnitASI::set_roi stores.

\* C39: after a set_roi of the unit that returned Ok, the stored ROI lies
\* inside the binned sensor (x_min + width <= max_width / bin_x and
\* y_min + height <= max_height / bin_y), its width is a multiple of 8 and
\* its height a multiple of 2.
C39_StoredRoiInsideBinnedSensor ==
    (cuRes.op = "set_roi" /\ cuRes.kind = "Ok") =>
        /\ cuGeom.x_min + cuGeom.width <= MaxWidth \div cuGeom.bin_x
        /\ cuGeom.y_min + cuGeom.height <= MaxHeight \div cuGeom.bin_y
        /\ cuGeom.width % 8 = 0
        /\ cuGeom.height % 2 = 0

============================================================================
